---- MODULE Spec2Model ----
(***************************************************************************)
(* A model of the execution options (lib/src/dbs/options.rs), of the       *)
(* CREATE statement executor (lib/src/sql/statements/create.rs), of the    *)
(* numeric tower (lib/src/sql/number.rs) and of the geometry values        *)
(* (lib/src/sql/geometry.rs).                                              *)
(*                                                                         *)
(* Four specifications share the variables:                                *)
(*   Spec        chains of Options operations starting at Options::new()   *)
(*   SpecCreate  runs of CreateStatement::compute                          *)
(*   SpecNumber  applications of the operations of Number                  *)
(*   SpecGeometry  applications of the operations of Geometry              *)
(***************************************************************************)
EXTENDS Integers, Sequences, FiniteSets, TLC

VARIABLES
    opt,      \* the Options value in hand
    src,      \* the Options value the latest operation was called on
    last,     \* the latest Options operation: its name, arguments, result
    steps,    \* number of derivations made since Options::new()
    cs,       \* the state of one call of CreateStatement::compute
    num,      \* the latest Number operation: operands, operator, result
    geo       \* the latest Geometry operation: operands, operation, result

vars == <<opt, src, last, steps, cs, num, geo>>

\* Before any call of compute, and before any operation of Number and of
\* Geometry
CsIdle == [pc |-> "idle"]
NumIdle == [op |-> "none"]
GeoIdle == [op |-> "none"]

(***************************************************************************)
(* Bounds                                                                  *)
(***************************************************************************)
\* Longest chain of derivations explored from Options::new()
MaxSteps == 2

(***************************************************************************)
(* Results: Rust's Result<T, E>, and a panic (process abort)               *)
(***************************************************************************)
None == "None"
Ok(v) == [tag |-> "Ok", val |-> v]
Err(e) == [tag |-> "Err", val |-> e]
Panic == [tag |-> "Panic", val |-> "unwrap on None"]
Unit == "()"

(***************************************************************************)
(* iam: Auth, Role, Action, ResourceKind (external collaborators)          *)
(***************************************************************************)
Roles == {"Viewer", "Editor", "Owner"}
IamActions == {"View", "Edit"}
ResourceKinds == {"Table", "Function"}

NsNames == {"ns1", "ns2"}
DbNames == {"db1", "db2"}

\* A principal: its level (No = anonymous, Root, Ns, Db, Sc) and its roles
Level(kind, ns, db) == [kind |-> kind, ns |-> ns, db |-> db]
MkAuth(level, roles) == [level |-> level, roles |-> roles]

AuthDefault == MkAuth(Level("No", None, None), {})

Auths ==
    { AuthDefault,
      MkAuth(Level("Root", None, None), {"Owner"}),
      MkAuth(Level("Root", None, None), {}),
      MkAuth(Level("Ns", "ns1", None), {"Editor"}),
      MkAuth(Level("Db", "ns1", "db1"), {"Editor"}),
      MkAuth(Level("Db", "ns1", "db1"), {"Viewer"}),
      MkAuth(Level("Sc", "ns1", "db1"), {}) }

is_anon(a) == a.level.kind = "No"
is_root(a) == a.level.kind = "Root"
is_ns(a) == a.level.kind = "Ns"
is_db(a) == a.level.kind = "Db"
has_role(a, r) == r \in a.roles
\* Level::ns() and Level::db(): Option<&str>
level_ns(a) == a.level.ns
level_db(a) == a.level.db

\* ResourceKind::on_root / on_ns / on_db / on_scope: the resolved resource
on_root(res) == [kind |-> res, level |-> <<"Root">>]
on_ns(res, ns) == [kind |-> res, level |-> <<"Ns", ns>>]
on_db(res, ns, db) == [kind |-> res, level |-> <<"Db", ns, db>>]
on_scope(res, ns, db, sc) == [kind |-> res, level |-> <<"Sc", ns, db, sc>>]

\* sql::Base
Bases == {<<"Root">>, <<"Ns">>, <<"Db">>, <<"Sc", "sc1">>}

(***************************************************************************)
(* cnf                                                                     *)
(***************************************************************************)
MAX_COMPUTATION_DEPTH == 120
U8_MAX == 255

(***************************************************************************)
(* Options                                                                 *)
(***************************************************************************)
Costs == {0, 1, MAX_COMPUTATION_DEPTH, U8_MAX}

Flags == {"live", "force", "perms", "strict", "fields", "events", "tables",
          "indexes", "futures", "projections"}
Fields == Flags \cup {"id", "ns", "db", "dive", "auth", "auth_enabled",
                      "sender", "capabilities"}

\* Options::new
OptionsNew ==
    [ ns |-> None, db |-> None, id |-> None, dive |-> 0,
      live |-> FALSE, perms |-> TRUE, force |-> FALSE, strict |-> FALSE,
      fields |-> TRUE, events |-> TRUE, tables |-> TRUE, indexes |-> TRUE,
      futures |-> FALSE, projections |-> FALSE, auth_enabled |-> TRUE,
      sender |-> None, auth |-> AuthDefault, capabilities |-> "default" ]

\* with_import that switches the index queries off as well
with_import_indexes(o, import) ==
    [o EXCEPT !.fields = ~import, !.events = ~import, !.tables = ~import,
              !.indexes = ~import]

with_import(o, import) ==
    [o EXCEPT !.fields = ~import, !.events = ~import, !.tables = ~import]
\* new_with_futures without ..*self: the rest is the one of Options::new()
new_with_futures_default(o, futures) == [OptionsNew EXCEPT !.futures = futures]
\* new_with_futures: the shared fields are cloned, futures is replaced and the
\* rest is copied from self (..*self)
new_with_futures(o, futures) == [o EXCEPT !.futures = futures]

\* selected_base that takes a lone database for a full selection
selected_base_lenient(o) ==
    IF o.ns = None /\ o.db = None THEN Ok("Root")
    ELSE IF o.ns # None /\ o.db = None THEN Ok("Ns")
    ELSE Ok("Db")

selected_base(o) ==
    IF o.ns = None /\ o.db = None THEN Ok("Root")
    ELSE IF o.ns # None /\ o.db = None THEN Ok("Ns")
    ELSE IF o.ns # None /\ o.db # None THEN Ok("Db")
    ELSE Err("NsEmpty")

\* u8::wrapping_add in place of saturating_add
wrapping_add(a, b) == (a + b) % (U8_MAX + 1)

\* u8::saturating_add
saturating_add(a, b) == IF a + b > U8_MAX THEN U8_MAX ELSE a + b

\* dive with the limit itself excluded (< in place of <=)
dive_strict(o, cost) ==
    LET depth == saturating_add(o.dive, cost) IN
    IF depth < MAX_COMPUTATION_DEPTH
    THEN Ok([o EXCEPT !.dive = depth])
    ELSE Err("ComputationDepthExceeded")

dive(o, cost) ==
    LET depth == saturating_add(o.dive, cost) IN
    IF depth <= MAX_COMPUTATION_DEPTH
    THEN Ok([o EXCEPT !.dive = depth])
    ELSE Err("ComputationDepthExceeded")

\* Options::ns and Options::db: Option::unwrap
opt_ns(o) == IF o.ns = None THEN Panic ELSE Ok(o.ns)
opt_db(o) == IF o.db = None THEN Panic ELSE Ok(o.db)

valid_for_ns(o) == IF o.ns = None THEN Err("NsEmpty") ELSE Ok(Unit)

\* valid_for_db that looks at the database before the namespace
valid_for_db_db_first(o) ==
    IF o.db = None THEN Err("DbEmpty")
    ELSE IF valid_for_ns(o).tag = "Err" THEN valid_for_ns(o)
    ELSE Ok(Unit)

valid_for_db(o) ==
    IF valid_for_ns(o).tag = "Err" THEN valid_for_ns(o)
    ELSE IF o.db = None THEN Err("DbEmpty")
    ELSE Ok(Unit)

\* the resolution with the scope arm validating the namespace only
resolve_res_sc_ns(o, res, base) ==
    CASE base[1] = "Root" -> Ok(on_root(res))
      [] base[1] = "Ns" ->
            IF valid_for_ns(o).tag = "Err" THEN valid_for_ns(o)
            ELSE IF opt_ns(o).tag = "Panic" THEN Panic
            ELSE Ok(on_ns(res, opt_ns(o).val))
      [] base[1] = "Db" ->
            IF valid_for_db(o).tag = "Err" THEN valid_for_db(o)
            ELSE IF opt_ns(o).tag = "Panic" \/ opt_db(o).tag = "Panic" THEN Panic
            ELSE Ok(on_db(res, opt_ns(o).val, opt_db(o).val))
      [] base[1] = "Sc" ->
            IF valid_for_ns(o).tag = "Err" THEN valid_for_ns(o)
            ELSE IF opt_ns(o).tag = "Panic" \/ opt_db(o).tag = "Panic" THEN Panic
            ELSE Ok(on_scope(res, opt_ns(o).val, opt_db(o).val, base[2]))

\* Options::is_allowed, lines 460-474: the resource the check is made on
resolve_res(o, res, base) ==
    CASE base[1] = "Root" -> Ok(on_root(res))
      [] base[1] = "Ns" ->
            IF valid_for_ns(o).tag = "Err" THEN valid_for_ns(o)
            ELSE IF opt_ns(o).tag = "Panic" THEN Panic
            ELSE Ok(on_ns(res, opt_ns(o).val))
      [] base[1] = "Db" ->
            IF valid_for_db(o).tag = "Err" THEN valid_for_db(o)
            ELSE IF opt_ns(o).tag = "Panic" \/ opt_db(o).tag = "Panic" THEN Panic
            ELSE Ok(on_db(res, opt_ns(o).val, opt_db(o).val))
      [] base[1] = "Sc" ->
            IF valid_for_db(o).tag = "Err" THEN valid_for_db(o)
            ELSE IF opt_ns(o).tag = "Panic" \/ opt_db(o).tag = "Panic" THEN Panic
            ELSE Ok(on_scope(res, opt_ns(o).val, opt_db(o).val, base[2]))

\* Options::is_allowed; iam is the answer of Auth::is_allowed for the
\* resolved resource.  The result and the resource handed to the iam layer.
is_allowed(o, action, res, base, iam) ==
    IF ~o.auth_enabled /\ is_anon(o.auth)
    THEN [res |-> Ok(Unit), asked |-> None]
    ELSE LET r == resolve_res(o, res, base) IN
         IF r.tag # "Ok" THEN [res |-> r, asked |-> None]
         ELSE [res |-> IF iam.tag = "Err" THEN Err(<<"IamError", iam.val>>) ELSE iam,
               asked |-> r.val]

\* Options::check_perms, lines 500-504, with the short-circuit evaluation of
\* || and &&: "true", "false", or "panic" when ns() or db() unwraps None
db_in_actor_level(o) ==
    IF is_root(o.auth) THEN "true"
    ELSE IF is_ns(o.auth)
    THEN (IF opt_ns(o).tag = "Panic" THEN "panic"
          ELSE IF level_ns(o.auth) = opt_ns(o).val THEN "true" ELSE "false")
    ELSE IF is_db(o.auth)
    THEN (IF opt_ns(o).tag = "Panic" THEN "panic"
          ELSE IF level_ns(o.auth) # opt_ns(o).val THEN "false"
          ELSE IF opt_db(o).tag = "Panic" THEN "panic"
          ELSE IF level_db(o.auth) = opt_db(o).val THEN "true" ELSE "false")
    ELSE "false"

check_perms(o, action) ==
    IF ~o.perms THEN Ok(FALSE)
    ELSE IF ~o.auth_enabled /\ is_anon(o.auth) THEN Ok(FALSE)
    ELSE LET can_view == \E r \in {"Viewer", "Editor", "Owner"} : has_role(o.auth, r)
             can_edit == \E r \in {"Editor", "Owner"} : has_role(o.auth, r)
             lvl == db_in_actor_level(o)
         IN IF lvl = "panic" THEN Panic
            ELSE LET allowed == IF action = "View"
                                THEN can_view /\ lvl = "true"
                                ELSE can_edit /\ lvl = "true"
                 IN Ok(~allowed)

(***************************************************************************)
(* Options: the operations as steps                                        *)
(***************************************************************************)

\* the operations on &self that return something else than an Options
Queries == {"selected_base", "id", "ns", "db", "realtime", "valid_for_ns",
            "valid_for_db", "is_allowed", "check_perms"}

NoOp == [op |-> "new", res |-> Unit, arg |-> <<>>, panicked |-> FALSE]

\* A query leaves the value as it is, so a step after a query reaches nothing
\* that the same step before it does not reach: a chain is explored as
\* derivations followed by one query.  Nothing follows a panic.
Chaining == ~last.panicked /\ last.op \notin Queries

\* A builder or a derivation: the value in hand becomes the returned value
Derive(op, arg, o2) ==
    /\ Chaining
    /\ steps < MaxSteps
    /\ opt' = o2
    /\ src' = opt
    /\ last' = [op |-> op, res |-> o2, arg |-> arg, panicked |-> FALSE]
    /\ steps' = steps + 1
    /\ UNCHANGED <<cs, num, geo>>

\* An operation on &self that returns something else than an Options
Observe(op, arg, r) ==
    /\ Chaining
    /\ opt' = opt
    /\ src' = opt
    /\ last' = [op |-> op, res |-> r, arg |-> arg, panicked |-> (r.tag = "Panic")]
    /\ UNCHANGED <<steps, cs, num, geo>>

\* set_ns and set_db
Call_set_ns ==
    \/ \E ns \in {None} \cup NsNames : Derive("set_ns", <<ns>>, [opt EXCEPT !.ns = ns])
    \/ \E db \in {None} \cup DbNames : Derive("set_db", <<db>>, [opt EXCEPT !.db = db])
Call_with_required ==
    \E ns \in {None} \cup NsNames, db \in {None} \cup DbNames, a \in Auths :
        Derive("with_required", <<"node1", ns, db, a>>,
               [opt EXCEPT !.id = "node1", !.ns = ns, !.db = db, !.auth = a])
Call_with_id == Derive("with_id", <<"node1">>, [opt EXCEPT !.id = "node1"])
\* with_ns and with_db
Call_with_ns ==
    \/ \E ns \in {None} \cup NsNames : Derive("with_ns", <<ns>>, [opt EXCEPT !.ns = ns])
    \/ \E db \in {None} \cup DbNames : Derive("with_db", <<db>>, [opt EXCEPT !.db = db])
Call_with_auth == \E a \in Auths : Derive("with_auth", <<a>>, [opt EXCEPT !.auth = a])
\* with_live, with_perms, with_force, with_strict, with_fields, with_events,
\* with_tables, with_indexes, with_futures, with_projections: each assigns
\* the field of its name and returns self
Call_with_flag ==
    \E f \in Flags, b \in BOOLEAN : Derive("with_" \o f, <<b>>, [opt EXCEPT ![f] = b])
Call_with_import == \E b \in BOOLEAN : Derive("with_import", <<b>>, with_import(opt, b))
Call_with_auth_enabled ==
    \E b \in BOOLEAN : Derive("with_auth_enabled", <<b>>, [opt EXCEPT !.auth_enabled = b])
Call_with_capabilities ==
    \E c \in {"default", "allow_all"} :
        Derive("with_capabilities", <<c>>, [opt EXCEPT !.capabilities = c])

\* new_with_perms, new_with_force, new_with_strict, new_with_fields,
\* new_with_events, new_with_tables, new_with_indexes, new_with_projections:
\* the shared fields are cloned, the field of its name is replaced and the
\* rest is copied from self (..*self)
Call_new_with_flag ==
    \E f \in Flags \ {"live", "futures"}, b \in BOOLEAN :
        Derive("new_with_" \o f, <<b>>, [opt EXCEPT ![f] = b])
Call_new_with_futures ==
    \E b \in BOOLEAN : Derive("new_with_futures", <<b>>, new_with_futures(opt, b))
Call_new_with_import ==
    \E b \in BOOLEAN :
        Derive("new_with_import", <<b>>,
               [opt EXCEPT !.fields = ~b, !.events = ~b, !.tables = ~b])
Call_new_with_sender ==
    Derive("new_with_sender", <<"chn1">>, [opt EXCEPT !.sender = "chn1"])

\* dive: on Ok the callee goes on with the derived value, on Err the value in
\* hand stays the one dive was called on
Call_dive ==
    \E cost \in Costs :
        LET r == dive(opt, cost) IN
        /\ Chaining
        /\ steps < MaxSteps
        /\ opt' = IF r.tag = "Ok" THEN r.val ELSE opt
        /\ src' = opt
        /\ last' = [op |-> "dive", res |-> r, arg |-> <<cost>>, panicked |-> FALSE]
        /\ steps' = steps + 1
        /\ UNCHANGED <<cs, num, geo>>

Call_selected_base == Observe("selected_base", <<>>, selected_base(opt))
Call_id ==
    Observe("id", <<>>, IF opt.id = None THEN Err("Unreachable") ELSE Ok(opt.id))
\* ns() and db()
Call_ns ==
    \/ Observe("ns", <<>>, opt_ns(opt))
    \/ Observe("db", <<>>, opt_db(opt))
Call_realtime ==
    Observe("realtime", <<>>, IF ~opt.live THEN Err("RealtimeDisabled") ELSE Ok(Unit))
\* valid_for_ns and valid_for_db
Call_valid_for_ns ==
    \/ Observe("valid_for_ns", <<>>, valid_for_ns(opt))
    \/ Observe("valid_for_db", <<>>, valid_for_db(opt))
Call_is_allowed ==
    \E a \in IamActions, res \in ResourceKinds, base \in Bases, iam \in {Ok(Unit), Err("NotAllowed")} :
        LET r == is_allowed(opt, a, res, base, iam) IN
        /\ Chaining
        /\ opt' = opt
        /\ src' = opt
        /\ last' = [op |-> "is_allowed", res |-> r.res,
                    asked |-> r.asked, arg |-> <<a, res, base, iam>>,
                    panicked |-> (r.res.tag = "Panic")]
        /\ UNCHANGED <<steps, cs, num, geo>>
Call_check_perms ==
    \E a \in IamActions : Observe("check_perms", <<a>>, check_perms(opt, a))


Init ==
    /\ opt = OptionsNew
    /\ src = OptionsNew
    /\ last = NoOp
    /\ steps = 0
    /\ cs = CsIdle
    /\ num = NumIdle
    /\ geo = GeoIdle

Next ==
    \/ Call_set_ns
    \/ Call_with_required \/ Call_with_id \/ Call_with_ns
    \/ Call_with_auth \/ Call_with_flag \/ Call_with_import
    \/ Call_with_auth_enabled \/ Call_with_capabilities
    \/ Call_new_with_flag \/ Call_new_with_futures \/ Call_new_with_import
    \/ Call_new_with_sender
    \/ Call_dive
    \/ Call_selected_base \/ Call_id \/ Call_ns \/ Call_realtime
    \/ Call_valid_for_ns \/ Call_is_allowed
    \/ Call_check_perms

Spec == Init /\ [][Next]_vars

(***************************************************************************)
(* CreateStatement::compute                                                *)
(*                                                                         *)
(* The target expressions (Value::compute) and the iterator                *)
(* (Iterator::prepare, Iterator::output) are external: compute calls them, *)
(* suspends, and resumes with whatever they return.                        *)
(***************************************************************************)
\* Most targets in one statement
MaxTargets == 2

Targets == {"test", "person:1"}
Values == {"tb:test", "thing:person:1"}

Error(kind, value) == [kind |-> kind, value |-> value]
\* errors the collaborators may raise
Raised ==
    {Error("InvalidStatementTarget", v) : v \in Values}
        \cup {Error("QueryTimedout", None), Error("TxFailure", None)}

EvalResults == {Ok(v) : v \in Values} \cup {Err(e) : e \in Raised}
PrepareResults == {Ok(Unit)} \cup {Err(e) : e \in Raised}
OutputResults == {Ok("[records]")} \cup {Err(e) : e \in Raised}

\* the options a caller may hand to compute
ComputeOpts ==
    { [OptionsNew EXCEPT !.ns = n, !.db = d, !.futures = f] :
        n \in {None, "ns1"}, d \in {None, "db1"}, f \in BOOLEAN }

Statements ==
    UNION { [1..n -> Targets] : n \in 0..MaxTargets }

\* the closure handed to map_err that forgets to rewrite the error
create_map_err_id(e) == e

\* the closure handed to map_err (create.rs lines 66-73)
create_map_err(e) ==
    IF e.kind = "InvalidStatementTarget"
    THEN Error("CreateStatement", e.value)
    ELSE e

\* the locals of a call of compute on the statement `what` with options o
Frame(targets, o) ==
    [opt |-> o, pc |-> "start", v |-> None, k |-> 0,
     what |-> targets, opt2 |-> None, calls |-> <<>>,
     result |-> None, origin |-> None, raised |-> None]

CallLog(fn, k, o, arg) == [opt |-> o, arg |-> arg, k |-> k, fn |-> fn]

\* compute has returned r
Returned(c, r, from, e) ==
    [c EXCEPT !.pc = "done", !.result = r, !.origin = from, !.raised = e]

\* the loop head that leaves the loop one target early
LoopHead_short(c, k) ==
    IF k < Len(c.what)
    THEN [c EXCEPT !.pc = "eval", !.k = k,
                   !.calls = Append(@, CallLog("w.compute", k, c.opt2, c.what[k]))]
    ELSE [c EXCEPT !.pc = "output",
                   !.calls = Append(@, CallLog("i.output", 0, c.opt2, None))]

\* the loop head: evaluate target k, or after the last target ask for the output
LoopHead(c, k) ==
    IF k <= Len(c.what)
    THEN [c EXCEPT !.pc = "eval", !.k = k,
                   !.calls = Append(@, CallLog("w.compute", k, c.opt2, c.what[k]))]
    ELSE [c EXCEPT !.pc = "output",
                   !.calls = Append(@, CallLog("i.output", 0, c.opt2, None))]

\* compute is called: the selection is validated, the iterator created, the
\* options derived, and the first target (if any) is evaluated
Compute_Start ==
    /\ cs.pc = "idle"
    /\ \E what \in Statements, o \in ComputeOpts :
         LET c0 == Frame(what, o)
             valid == valid_for_db(o)
         IN cs' = IF valid.tag = "Err"
                  THEN Returned(c0, valid, "valid_for_db", None)
                  ELSE LoopHead([c0 EXCEPT !.opt2 = new_with_futures(o, FALSE)], 1)
    /\ UNCHANGED <<opt, src, last, steps, num, geo>>

\* w.compute(..).await returns
Compute_Evaluated ==
    /\ cs.pc = "eval"
    /\ \E r \in EvalResults :
         cs' = IF r.tag = "Err"
               THEN Returned(cs, r, "w.compute", r.val)
               ELSE [cs EXCEPT !.pc = "prepare", !.v = r.val,
                        !.calls = Append(@, CallLog("i.prepare", cs.k, cs.opt2, r.val))]
    /\ UNCHANGED <<opt, src, last, steps, num, geo>>

\* i.prepare(..).await returns
Compute_Prepared ==
    /\ cs.pc = "prepare"
    /\ \E r \in PrepareResults :
         cs' = IF r.tag = "Err"
               THEN Returned(cs, Err(create_map_err(r.val)), "i.prepare", r.val)
               ELSE LoopHead(cs, cs.k + 1)
    /\ UNCHANGED <<opt, src, last, steps, num, geo>>

\* i.output(..).await returns
Compute_Output ==
    /\ cs.pc = "output"
    /\ \E r \in OutputResults :
         cs' = Returned(cs, r, "i.output", IF r.tag = "Err" THEN r.val ELSE None)
    /\ UNCHANGED <<opt, src, last, steps, num, geo>>

(***************************************************************************)
(* CreateStatement as text (lib/src/sql/statements/create.rs)              *)
(***************************************************************************)
\* A text is a sequence of phrases between spaces: a word as it is spelled,
\* or what one of the parsers whats, data, output and timeout takes, kept
\* as the text its value prints as.  An Option is a sequence of at most one
\* value.

\* create with tag in the place of tag_no_case
create_tag(i) ==
    LET to_lowercase(w) ==
            CASE w \in {"CREATE", "Create", "create"} -> "create"
              [] w \in {"PARALLEL", "Parallel", "parallel"} -> "parallel"
              [] OTHER -> w
        tag_no_case(t, k) ==
            k <= Len(i) /\ i[k].class = "word" /\ i[k].text[1] = t
        \* what the parser of a clause takes: the phrase that is one
        takes(c, k) == k <= Len(i) /\ i[k].class = c
        some(k) == <<i[k].text>>
        d == IF takes("data", 3) THEN 4 ELSE 3
        o == IF takes("output", d) THEN d + 1 ELSE d
        t == IF takes("timeout", o) THEN o + 1 ELSE o
        p == IF tag_no_case("PARALLEL", t) THEN t + 1 ELSE t
    IN IF ~tag_no_case("CREATE", 1) \/ ~takes("values", 2) THEN Err("Error")
       ELSE Ok([what |-> i[2].text,
                data |-> IF d > 3 THEN some(3) ELSE <<>>,
                output |-> IF o > d THEN some(d) ELSE <<>>,
                timeout |-> IF t > o THEN some(o) ELSE <<>>,
                parallel |-> p > t,
                rest |-> SubSeq(i, p, Len(i))])

\* create: the keyword, the targets, and then under cut the four optional
\* clauses in their order; what is left of the text is returned with the
\* statement
create(i) ==
    LET to_lowercase(w) ==
            CASE w \in {"CREATE", "Create", "create"} -> "create"
              [] w \in {"PARALLEL", "Parallel", "parallel"} -> "parallel"
              [] OTHER -> w
        tag_no_case(t, k) ==
            k <= Len(i) /\ i[k].class = "word" /\ to_lowercase(i[k].text[1]) = to_lowercase(t)
        \* what the parser of a clause takes: the phrase that is one
        takes(c, k) == k <= Len(i) /\ i[k].class = c
        some(k) == <<i[k].text>>
        d == IF takes("data", 3) THEN 4 ELSE 3
        o == IF takes("output", d) THEN d + 1 ELSE d
        t == IF takes("timeout", o) THEN o + 1 ELSE o
        p == IF tag_no_case("PARALLEL", t) THEN t + 1 ELSE t
    IN IF ~tag_no_case("CREATE", 1) \/ ~takes("values", 2) THEN Err("Error")
       ELSE Ok([what |-> i[2].text,
                data |-> IF d > 3 THEN some(3) ELSE <<>>,
                output |-> IF o > d THEN some(d) ELSE <<>>,
                timeout |-> IF t > o THEN some(o) ELSE <<>>,
                parallel |-> p > t,
                rest |-> SubSeq(i, p, Len(i))])

\* impl Display for CreateStatement
CreateStatement_fmt(stm) ==
    LET phrase(class, text) == [class |-> class, text |-> text]
        clause(class, v) == IF Len(v) = 0 THEN <<>> ELSE <<phrase(class, v[1])>>
    IN <<phrase("word", <<"CREATE">>), phrase("values", stm.what)>>
         \o clause("data", stm.data)
         \o clause("output", stm.output)
         \o clause("timeout", stm.timeout)
         \o (IF stm.parallel THEN <<phrase("word", <<"PARALLEL">>)>> ELSE <<>>)

\* create is called on a text: a first word, targets or none, and up to
\* four clauses in any order
Call_create ==
    /\ cs = CsIdle
    /\ LET phrase(class, text) == [class |-> class, text |-> text]
           heads ==
               {<<phrase("word", <<w>>)>> : w \in {"CREATE", "Create", "create", "SELECT"}}
           targets ==
               {<<>>} \cup {<<phrase("values", v)>> : v \in {<<"test">>, <<"a", "b">>}}
           clauses ==
               { phrase("data", <<"SET a = 1">>), phrase("output", <<"RETURN NONE">>),
                 phrase("timeout", <<"TIMEOUT 1s">>),
                 phrase("word", <<"PARALLEL">>), phrase("word", <<"parallel">>) }
           tails == UNION {[1..n -> clauses] : n \in 0..4}
       IN \E h \in heads, w \in targets, c \in tails :
             cs' = [pc |-> "parsed", res |-> create(h \o w \o c), i |-> h \o w \o c]
    /\ UNCHANGED <<opt, src, last, steps, num, geo>>

NextCreate ==
    \/ Compute_Start \/ Compute_Evaluated \/ Compute_Prepared \/ Compute_Output
    \/ Call_create

SpecCreate == Init /\ [][NextCreate]_vars

(***************************************************************************)
(* Number                                                                  *)
(*                                                                         *)
(* Int(v): an integer of the i64 range.  Float: a class (finite, infinite, *)
(* NaN), a sign bit and, when finite, its value.  Decimal: its value.      *)
(* Finite values are exact rationals n/d in lowest terms.  TLC integers    *)
(* have 32 bits, so the i64 range and the Decimal range are kept in their  *)
(* order (i64 inside Decimal) at the sizes IntMax and DecMax, and the      *)
(* precision of binary64 at FloatExactMax (below the largest Int, as 2^53  *)
(* is below i64::MAX): a float is an integer of at most that magnitude     *)
(* times a power of two, of a magnitude between 1/FloatMax and FloatMax.   *)
(***************************************************************************)
\* The largest Int, standing for i64::MAX
IntMax == 100
\* The largest Decimal, standing for Decimal::MAX
DecMax == 1000
\* The magnitude up to which every integer is a binary64, standing for 2^53
FloatExactMax == 64
\* The largest finite binary64, standing for f64::MAX (above the largest
\* Decimal); the smallest positive one is its inverse
FloatMax == 4096
\* The number of u32 values, standing for 2^32 (below the largest Int)
U32Size == 16
\* The largest i128, standing for i128::MAX (between the largest Decimal and
\* the largest float)
I128Max == 3000

IntMin == -IntMax - 1

Abs(x) == IF x < 0 THEN -x ELSE x

RECURSIVE Gcd(_, _)
Gcd(a, b) == IF b = 0 THEN a ELSE Gcd(b, a % b)

\* the rational n/d (d # 0) in lowest terms with a positive denominator
Q(n, d) ==
    LET g == Gcd(Abs(n), Abs(d))
        sgn == IF d < 0 THEN -1 ELSE 1
    IN [n |-> sgn * (n \div g), d |-> sgn * (d \div g)]
Q0 == [n |-> 0, d |-> 1]
QAdd(x, y) == Q(x.n * y.d + y.n * x.d, x.d * y.d)
QNeg(x) == [n |-> -x.n, d |-> x.d]
QSub(x, y) == QAdd(x, QNeg(y))
QMul(x, y) == Q(x.n * y.n, x.d * y.d)
QDiv(x, y) == Q(x.n * y.d, x.d * y.n)
QAbs(x) == [n |-> Abs(x.n), d |-> x.d]
\* x > m for an integer m
QGtInt(x, m) == x.n > m * x.d

Number_Int(v) == [v |-> v, kind |-> "Int"]
Number_Float(c, neg, q) == [kind |-> "Float", c |-> c, neg |-> neg, q |-> q]
Number_Decimal(q) == [kind |-> "Decimal", q |-> q]

\* the spacing of the floats around the magnitude x (a rational, x > 0):
\* f64_ulp(x, 1) when x is above FloatExactMax, 1 / f64_ulp_inv(x, 1) below
RECURSIVE f64_ulp(_, _)
f64_ulp(x, s) == IF x.n <= FloatExactMax * s * x.d THEN s ELSE f64_ulp(x, 2 * s)
RECURSIVE f64_ulp_inv(_, _)
f64_ulp_inv(x, t) ==
    IF x.n * 2 * t <= FloatExactMax * x.d THEN f64_ulp_inv(x, 2 * t) ELSE t

\* n/d (d > 0) rounded to the nearest integer, a tie to the even one
RoundHalfEven(n, d) ==
    LET fl == n \div d
        r == n - fl * d
    IN IF 2 * r < d THEN fl
       ELSE IF 2 * r > d THEN fl + 1
       ELSE IF fl % 2 = 0 THEN fl ELSE fl + 1

\* the binary64 nearest to the rational q (round to nearest, ties to even)
f64_round(q) ==
    IF q.n = 0 THEN q
    ELSE LET s == f64_ulp(QAbs(q), 1)
             t == f64_ulp_inv(QAbs(q), 1)
         IN IF s > 1 THEN Q(RoundHalfEven(q.n, q.d * s) * s, 1)
            ELSE Q(RoundHalfEven(q.n * t, q.d), t)

FNaN(neg) == Number_Float("nan", neg, Q0)
FInf(neg) == Number_Float("inf", neg, Q0)
\* the finite float nearest to q; the sign bit of a zero is given
\* (beyond FloatMax an infinity, below 1/FloatMax a zero)
FFin(q, zneg) ==
    IF Abs(q.n) \div q.d >= FloatMax /\ Abs(q.n) > FloatMax * q.d THEN FInf(q.n < 0)
    ELSE IF q.n # 0 /\ q.d \div Abs(q.n) >= FloatMax /\ q.d > FloatMax * Abs(q.n)
    THEN Number_Float("fin", q.n < 0, Q0)
    ELSE Number_Float("fin", IF q.n = 0 THEN zneg ELSE q.n < 0, f64_round(q))

PanicWith(msg) == [tag |-> "Panic", val |-> msg]

\* the NaN an invalid operation produces: its sign bit depends on the target
NaNs == {Ok(FNaN(s)) : s \in BOOLEAN}

\* i64 arithmetic: an overflow panics with overflow checks on and wraps
\* with them off; a division by zero, or of i64::MIN by -1, panics
WrapInt(r) == ((r - IntMin) % (2 * (IntMax + 1))) + IntMin
IntResult(r, what) ==
    IF r > IntMax \/ r < IntMin
    THEN {PanicWith(what), Ok(Number_Int(WrapInt(r)))}
    ELSE {Ok(Number_Int(r))}
\* truncation toward zero
TruncDiv(v, w) ==
    LET m == Abs(v) \div Abs(w) IN IF (v < 0) # (w < 0) THEN -m ELSE m
IntOp(op, v, w) ==
    CASE op = "+" -> IntResult(v + w, "attempt to add with overflow")
      [] op = "-" -> IntResult(v - w, "attempt to subtract with overflow")
      [] op = "*" -> IntResult(v * w, "attempt to multiply with overflow")
      [] op = "/" ->
            IF w = 0 THEN {PanicWith("attempt to divide by zero")}
            ELSE IF v = IntMin /\ w = -1
            THEN {PanicWith("attempt to divide with overflow")}
            ELSE {Ok(Number_Int(TruncDiv(v, w)))}

\* binary64 arithmetic (IEEE 754) on the model's floats
FloatAddSigned(x, y) ==
    IF x.c = "nan" \/ y.c = "nan" THEN NaNs
    ELSE IF x.c = "inf" /\ y.c = "inf"
    THEN (IF x.neg = y.neg THEN {Ok(x)} ELSE NaNs)
    ELSE IF x.c = "inf" THEN {Ok(x)}
    ELSE IF y.c = "inf" THEN {Ok(y)}
    ELSE {Ok(FFin(QAdd(x.q, y.q), x.neg /\ y.neg))}
FloatOp(op, x, y) ==
    CASE op = "+" -> FloatAddSigned(x, y)
      [] op = "-" -> FloatAddSigned(x, [y EXCEPT !.neg = ~y.neg, !.q = QNeg(y.q)])
      [] op = "*" ->
            IF x.c = "nan" \/ y.c = "nan" THEN NaNs
            ELSE IF x.c = "inf" \/ y.c = "inf"
            THEN (IF (x.c = "fin" /\ x.q.n = 0) \/ (y.c = "fin" /\ y.q.n = 0)
                  THEN NaNs
                  ELSE {Ok(FInf(x.neg # y.neg))})
            ELSE {Ok(FFin(QMul(x.q, y.q), x.neg # y.neg))}
      [] op = "/" ->
            IF x.c = "nan" \/ y.c = "nan" THEN NaNs
            ELSE IF x.c = "inf"
            THEN (IF y.c = "inf" THEN NaNs ELSE {Ok(FInf(x.neg # y.neg))})
            ELSE IF y.c = "inf" THEN {Ok(FFin(Q0, x.neg # y.neg))}
            ELSE IF y.q.n = 0
            THEN (IF x.q.n = 0 THEN NaNs ELSE {Ok(FInf(x.neg # y.neg))})
            ELSE {Ok(FFin(QDiv(x.q, y.q), x.neg # y.neg))}

\* rust_decimal arithmetic: the operators panic on overflow and on a
\* division by zero
DecResult(q, what) ==
    IF QGtInt(QAbs(q), DecMax) THEN {PanicWith(what)} ELSE {Ok(Number_Decimal(q))}
DecOp(op, x, y) ==
    CASE op = "+" -> DecResult(QAdd(x, y), "Addition overflowed")
      [] op = "-" -> DecResult(QSub(x, y), "Subtraction overflowed")
      [] op = "*" -> DecResult(QMul(x, y), "Multiplication overflowed")
      [] op = "/" ->
            IF y.n = 0 THEN {PanicWith("Division by zero")}
            ELSE DecResult(QDiv(x, y), "Division overflowed")

\* v as f64
int_as_f64(v) == FFin(Q(v, 1), FALSE)

\* Decimal::try_from(f64): None for NaN, the infinities and values outside
\* of the Decimal range
decimal_try_from_f64(x) ==
    IF x.c # "fin" \/ QGtInt(QAbs(x.q), DecMax) THEN Err(Unit) ELSE Ok(x.q)

\* Result::unwrap_or_default for a Decimal
unwrap_or_default(r) == IF r.tag = "Ok" THEN r.val ELSE Q0

\* as_decimal with the Float arm going through the integer part (v as i64)
as_decimal_via_int(x) ==
    CASE x.kind = "Int" -> Q(x.v, 1)
      [] x.kind = "Float" ->
            IF x.c = "nan" THEN Q0
            ELSE IF x.c = "inf" \/ QGtInt(QAbs(x.q), IntMax)
            THEN Q(IF x.neg THEN IntMin ELSE IntMax, 1)
            ELSE Q(TruncDiv(x.q.n, x.q.d), 1)
      [] x.kind = "Decimal" -> x.q

\* Number::as_decimal: the value of the Decimal
as_decimal(x) ==
    CASE x.kind = "Int" -> Q(x.v, 1)
      [] x.kind = "Float" ->
            unwrap_or_default(decimal_try_from_f64(x))
      [] x.kind = "Decimal" -> x.q

\* Number::to_decimal
to_decimal(x) ==
    CASE x.kind = "Int" -> Q(x.v, 1)
      [] x.kind = "Float" ->
            unwrap_or_default(decimal_try_from_f64(x))
      [] x.kind = "Decimal" -> x.q

\* the match of the operator impls: the arms in the order of the source;
\* owned is TRUE for the by-value impl (as_decimal), FALSE for the
\* by-reference impl (to_decimal)
arith(op, owned, a, b) ==
    CASE a.kind = "Int" /\ b.kind = "Int" -> IntOp(op, a.v, b.v)
      [] a.kind = "Float" /\ b.kind = "Float" -> FloatOp(op, a, b)
      [] a.kind = "Decimal" /\ b.kind = "Decimal" -> DecOp(op, a.q, b.q)
      [] a.kind = "Int" /\ b.kind = "Float" -> FloatOp(op, int_as_f64(a.v), b)
      [] a.kind = "Float" /\ b.kind = "Int" -> FloatOp(op, a, int_as_f64(b.v))
      [] OTHER ->
            IF owned THEN DecOp(op, as_decimal(a), as_decimal(b))
            ELSE DecOp(op, to_decimal(a), to_decimal(b))

\* the Ordering of the rationals x and y
QCmp(x, y) ==
    IF x.n * y.d < y.n * x.d THEN "Less"
    ELSE IF x.n * y.d > y.n * x.d THEN "Greater" ELSE "Equal"

\* f64::total_cmp alone, a zero of either sign not being special
total_cmp_f64_bits(x, y) ==
    LET rank(z) == CASE z.c = "nan" -> IF z.neg THEN 0 ELSE 4
                     [] z.c = "inf" -> IF z.neg THEN 1 ELSE 3
                     [] z.c = "fin" -> 2
    IN IF rank(x) # rank(y)
       THEN (IF rank(x) < rank(y) THEN "Less" ELSE "Greater")
       ELSE IF x.c # "fin" \/ QCmp(x.q, y.q) # "Equal" \/ x.neg = y.neg
       THEN (IF x.c # "fin" THEN "Equal" ELSE QCmp(x.q, y.q))
       ELSE IF x.neg THEN "Less" ELSE "Greater"

\* Ord::cmp, fn total_cmp_f64: Equal for two zeros, otherwise f64::total_cmp
\* (-NaN < -inf < negative < -0 < +0 < positive < +inf < +NaN)
total_cmp_f64(x, y) ==
    LET rank(z) == CASE z.c = "nan" -> IF z.neg THEN 0 ELSE 4
                     [] z.c = "inf" -> IF z.neg THEN 1 ELSE 3
                     [] z.c = "fin" -> 2
    IN IF x.c = "fin" /\ y.c = "fin" /\ x.q.n = 0 /\ y.q.n = 0 THEN "Equal"
       ELSE IF rank(x) # rank(y)
       THEN (IF rank(x) < rank(y) THEN "Less" ELSE "Greater")
       ELSE IF x.c # "fin" THEN "Equal"
       ELSE QCmp(x.q, y.q)

\* Ord::cmp for Number: the arms in the order of the source.  Decimal::to_f64
\* gives the float nearest to the Decimal.
cmp(a, b) ==
    CASE a.kind = "Int" /\ b.kind = "Int" -> QCmp(Q(a.v, 1), Q(b.v, 1))
      [] a.kind = "Float" /\ b.kind = "Float" -> total_cmp_f64(a, b)
      [] a.kind = "Decimal" /\ b.kind = "Decimal" -> QCmp(a.q, b.q)
      [] a.kind = "Int" /\ b.kind = "Float" -> total_cmp_f64(int_as_f64(a.v), b)
      [] a.kind = "Float" /\ b.kind = "Int" -> total_cmp_f64(a, int_as_f64(b.v))
      [] a.kind = "Int" /\ b.kind = "Decimal" -> QCmp(Q(a.v, 1), b.q)
      [] a.kind = "Decimal" /\ b.kind = "Int" -> QCmp(a.q, Q(b.v, 1))
      [] a.kind = "Float" /\ b.kind = "Decimal" -> total_cmp_f64(a, FFin(b.q, FALSE))
      [] a.kind = "Decimal" /\ b.kind = "Float" -> total_cmp_f64(FFin(a.q, FALSE), b)

\* PartialEq::eq for Number, fn total_eq_f64: the same bits, or two zeros
eq(a, b) ==
    LET total_eq_f64(x, y) ==
            x = y \/ (x.c = "fin" /\ y.c = "fin" /\ x.q.n = 0 /\ y.q.n = 0)
    IN CASE a.kind = "Int" /\ b.kind = "Int" -> a.v = b.v
         [] a.kind = "Float" /\ b.kind = "Float" -> total_eq_f64(a, b)
         [] a.kind = "Decimal" /\ b.kind = "Decimal" -> a.q = b.q
         [] a.kind = "Int" /\ b.kind = "Float" -> total_eq_f64(int_as_f64(a.v), b)
         [] a.kind = "Float" /\ b.kind = "Int" -> total_eq_f64(a, int_as_f64(b.v))
         [] a.kind = "Int" /\ b.kind = "Decimal" -> Q(a.v, 1) = b.q
         [] a.kind = "Decimal" /\ b.kind = "Int" -> a.q = Q(b.v, 1)
         [] a.kind = "Float" /\ b.kind = "Decimal" -> total_eq_f64(a, FFin(b.q, FALSE))
         [] a.kind = "Decimal" /\ b.kind = "Float" -> total_eq_f64(FFin(a.q, FALSE), b)

\* the operands the operators are applied to
FloatSamples ==
    {FNaN(FALSE), FNaN(TRUE), FInf(FALSE), FInf(TRUE),
     FFin(Q0, FALSE), FFin(Q0, TRUE), FFin(Q(3, 2), FALSE), FFin(Q(-2, 1), FALSE),
     FFin(Q(2 * DecMax, 1), FALSE),
     FFin(Q(-1, 1), FALSE), FFin(Q(-1, 8), FALSE), FFin(Q(1, 8), FALSE),
     FFin(Q(1, 1), FALSE), FFin(Q(FloatExactMax, 1), FALSE)}
Numbers ==
    LET IntSamples ==
            {Number_Int(v) : v \in {IntMin, -3, -1, 0, 1, 2, 3, FloatExactMax,
                                    FloatExactMax + 1, IntMax}}
        DecimalSamples ==
            {Number_Decimal(q) : q \in {Q0, Q(5, 2), Q(-1, 1), Q(DecMax, 1), Q(1, 1),
                                        Q(1, 8), Q(FloatExactMax + 1, 1)}}
    IN  IntSamples \cup FloatSamples \cup DecimalSamples

\* Number::as_float: v as f64, and for a Decimal the nearest float
as_float(x) ==
    CASE x.kind = "Int" -> int_as_f64(x.v)
      [] x.kind = "Float" -> x
      [] x.kind = "Decimal" -> FFin(x.q, FALSE)

\* v as $int for an f64: NaN gives 0, the integer part is taken and a value
\* beyond the range of the type gives the nearest bound
f64_as(x, lo, hi) ==
    IF x.c = "nan" THEN 0
    ELSE IF x.c = "inf" THEN (IF x.neg THEN lo ELSE hi)
    ELSE IF TruncDiv(x.q.n, x.q.d) < lo THEN lo
    ELSE IF TruncDiv(x.q.n, x.q.d) > hi THEN hi
    ELSE TruncDiv(x.q.n, x.q.d)

\* Number::as_usize (usize is u64): v as usize keeps the 64 bits of an i64;
\* Decimal::try_into fails for a Decimal outside of the range
as_usize(x) ==
    CASE x.kind = "Int" -> x.v % (2 * IntMax + 2)
      [] x.kind = "Float" -> f64_as(x, 0, 2 * IntMax + 1)
      [] x.kind = "Decimal" ->
            IF x.q.n < 0 \/ TruncDiv(x.q.n, x.q.d) > 2 * IntMax + 1 THEN 0
            ELSE TruncDiv(x.q.n, x.q.d)

\* Number::as_int
as_int(x) ==
    CASE x.kind = "Int" -> x.v
      [] x.kind = "Float" -> f64_as(x, IntMin, IntMax)
      [] x.kind = "Decimal" ->
            IF TruncDiv(x.q.n, x.q.d) < IntMin \/ TruncDiv(x.q.n, x.q.d) > IntMax
            THEN 0
            ELSE TruncDiv(x.q.n, x.q.d)

\* Number::to_int
to_int(x) ==
    CASE x.kind = "Int" -> x.v
      [] x.kind = "Float" -> f64_as(x, IntMin, IntMax)
      [] x.kind = "Decimal" ->
            IF TruncDiv(x.q.n, x.q.d) < IntMin \/ TruncDiv(x.q.n, x.q.d) > IntMax
            THEN 0
            ELSE TruncDiv(x.q.n, x.q.d)

\* Number::to_float
to_float(x) ==
    CASE x.kind = "Int" -> int_as_f64(x.v)
      [] x.kind = "Float" -> x
      [] x.kind = "Decimal" -> FFin(x.q, FALSE)

\* i64::pow(v, e): the power wrapped to the i64 range, and whether it
\* overflowed
RECURSIVE i64_pow(_, _)
i64_pow(v, e) ==
    IF e = 0 THEN <<1, FALSE>>
    ELSE LET r == i64_pow(v, e - 1) IN
         <<WrapInt(r[1] * v), r[2] \/ r[1] * v > IntMax \/ r[1] * v < IntMin>>

\* Decimal::checked_powu: acc * q^e, "over" beyond the Decimal range; a
\* magnitude below the smallest Decimal (1 / DecMax) is zero
RECURSIVE decimal_powu(_, _, _)
decimal_powu(acc, q, e) ==
    IF e = 0 \/ acc.n = 0 THEN <<"ok", acc>>
    ELSE IF QAbs(q) = Q(1, 1) THEN <<"ok", IF e % 2 = 0 THEN acc ELSE QMul(acc, q)>>
    ELSE LET m == QMul(acc, q) IN
         IF QGtInt(QAbs(m), DecMax) THEN <<"over", Q0>>
         ELSE IF m.d > DecMax * Abs(m.n) THEN <<"ok", Q0>>
         ELSE decimal_powu(m, q, e - 1)

\* acc * x^e in binary64 for a finite x, each product rounded
RECURSIVE f64_powi(_, _, _)
f64_powi(acc, x, e) ==
    IF e = 0 \/ acc.c # "fin" \/ acc.q.n = 0 THEN acc
    ELSE IF QAbs(x.q) = Q(1, 1)
    THEN (IF e % 2 = 0 THEN acc ELSE FFin(QMul(acc.q, x.q), FALSE))
    ELSE f64_powi(FFin(QMul(acc.q, x.q), acc.neg # x.neg), x, e - 1)

\* f64::powf(x, y) (IEEE 754 pow).  A power with a fractional exponent is
\* not computed: it is some positive finite float.
f64_powf(x, y) ==
    LET one == FFin(Q(1, 1), FALSE)
        yint == y.c = "fin" /\ y.q.d = 1
        yodd == yint /\ y.q.n % 2 = 1
        big == x.c = "inf" \/ (x.c = "fin" /\ QGtInt(QAbs(x.q), 1))
    IN IF y.c = "fin" /\ y.q.n = 0 THEN {Ok(one)}
       ELSE IF x = one THEN {Ok(one)}
       ELSE IF x.c = "nan" \/ y.c = "nan" THEN NaNs
       ELSE IF y.c = "inf"
       THEN (IF x.c = "fin" /\ QAbs(x.q) = Q(1, 1) THEN {Ok(one)}
             ELSE IF big = ~y.neg THEN {Ok(FInf(FALSE))} ELSE {Ok(FFin(Q0, FALSE))})
       ELSE IF x.c = "inf" \/ x.q.n = 0
       THEN (IF (x.c = "inf") = ~y.neg THEN {Ok(FInf(x.neg /\ yodd))}
             ELSE {Ok(FFin(Q0, x.neg /\ yodd))})
       ELSE IF ~yint
       THEN (IF x.neg THEN NaNs
             ELSE {Ok(f) : f \in {g \in FloatSamples : g.c = "fin" /\ g.q.n > 0}})
       ELSE LET r == f64_powi(one, x, Abs(y.q.n)) IN
            IF ~y.neg THEN {Ok(r)}
            ELSE IF r.c = "inf" THEN {Ok(FFin(Q0, r.neg))}
            ELSE IF r.q.n = 0 THEN {Ok(FInf(r.neg))}
            ELSE {Ok(FFin(QDiv(Q(1, 1), r.q), FALSE))}

\* Number::pow; p as u32 keeps the low 32 bits of p, Decimal::powi panics
\* where checked_powi gives None
pow(a, p) ==
    CASE a.kind = "Int" /\ p.kind = "Int" ->
            LET r == i64_pow(a.v, p.v % U32Size) IN
            IF r[2] THEN {PanicWith("attempt to multiply with overflow"),
                          Ok(Number_Int(r[1]))}
            ELSE {Ok(Number_Int(r[1]))}
      [] a.kind = "Decimal" /\ p.kind = "Int" ->
            LET r == decimal_powu(Q(1, 1), a.q, Abs(p.v)) IN
            IF r[1] = "over" \/ (p.v < 0 /\ r[2].n = 0)
            THEN {PanicWith("Pow overflowed")}
            ELSE IF p.v >= 0 THEN {Ok(Number_Decimal(r[2]))}
            ELSE {Ok(Number_Decimal(QDiv(Q(1, 1), r[2])))}
      [] OTHER -> f64_powf(as_float(a), as_float(p))

\* A number as text: its sign, the magnitude its digits denote, whether it
\* has a fraction part and an exponent part, and its suffix ("", "f", "dec")
Literal(neg, q, frac, exp, suffix) ==
    [neg |-> neg, q |-> q, frac |-> frac, exp |-> exp, suffix |-> suffix,
     form |-> "digits"]
\* The texts without digits: NaN, inf and -inf
Word(neg, form) ==
    [neg |-> neg, q |-> Q0, frac |-> FALSE, exp |-> FALSE, suffix |-> "",
     form |-> form]

\* Display for Number.  An i64 and a Decimal print their digits; a finite
\* f64 prints its shortest decimal form, without exponent and without
\* fraction when it is an integer; the others print as NaN, inf and -inf.
to_string(x) ==
    CASE x.kind = "Int" -> Literal(x.v < 0, Q(Abs(x.v), 1), FALSE, FALSE, "")
      [] x.kind = "Float" ->
            IF x.c = "fin" THEN Literal(x.neg, QAbs(x.q), x.q.d # 1, FALSE, "f")
            ELSE IF x.c = "nan" THEN Word(FALSE, "NaN")
            ELSE Word(x.neg, "inf")
      [] x.kind = "Decimal" ->
            Literal(x.q.n < 0, QAbs(x.q), x.q.d # 1, FALSE, "dec")

\* the range of a primitive integer type
PrimRange(ty) ==
    CASE ty = "i32" -> <<-(U32Size \div 2), (U32Size \div 2) - 1>>
      [] ty = "u32" -> <<0, U32Size - 1>>
      [] ty = "i64" -> <<IntMin, IntMax>>
      [] ty = "u64" -> <<0, 2 * IntMax + 1>>
      [] ty = "i128" -> <<-I128Max - 1, I128Max>>
      [] ty = "u128" -> <<0, 2 * I128Max + 1>>

\* try_into_prim with a cast (v as $int) in place of the checked conversion
try_into_prim_cast(value, ty) ==
    LET lo == PrimRange(ty)[1]
        size == PrimRange(ty)[2] - PrimRange(ty)[1] + 1
        t == IF value.kind = "Int" THEN value.v
             ELSE IF value.c = "fin" THEN TruncDiv(value.q.n, value.q.d) ELSE 0
    IN Ok(((t - lo) % size) + lo)

\* impl TryFrom<Number> for $int: ToPrimitive::to_$int gives the integer
\* part when it lies in the range of the type and None otherwise
try_into_prim(value, ty) ==
    LET t == CASE value.kind = "Int" -> <<TRUE, value.v>>
               [] value.kind = "Float" ->
                     IF value.c = "fin"
                     THEN <<TRUE, TruncDiv(value.q.n, value.q.d)>>
                     ELSE <<FALSE, 0>>
               [] value.kind = "Decimal" -> <<TRUE, TruncDiv(value.q.n, value.q.d)>>
    IN IF t[1] /\ t[2] >= PrimRange(ty)[1] /\ t[2] <= PrimRange(ty)[2]
       THEN Ok(t[2])
       ELSE Err(<<"TryFrom", to_string(value), ty>>)

\* The texts given to the parser: digits with or without a fraction part,
\* an exponent part and a suffix, the words, and every printed Number
Lexemes ==
    {Literal(neg, b[1], b[2], b[3], suffix) :
        neg \in BOOLEAN, suffix \in {"", "f", "dec"},
        b \in {<<Q0, FALSE, FALSE>>, <<Q(1, 1), FALSE, FALSE>>,
               <<Q(IntMax, 1), FALSE, FALSE>>, <<Q(IntMax + 1, 1), FALSE, FALSE>>,
               <<Q(IntMax + 2, 1), FALSE, FALSE>>, <<Q(2 * DecMax, 1), FALSE, FALSE>>,
               <<Q(1, 1), TRUE, FALSE>>, <<Q(3, 2), TRUE, FALSE>>,
               <<Q(100, 1), FALSE, TRUE>>, <<Q(1, 8), TRUE, TRUE>>}}
        \cup {Word(neg, form) : neg \in BOOLEAN, form \in {"NaN", "inf"}}
        \cup {to_string(x) : x \in Numbers}

\* impl TryFrom<&str> for Number: str::parse::<i64> takes a sign and digits
\* of a value in the i64 range; f64::from_str takes every text that
\* recognize_float takes and gives the nearest float
try_from_str(v) ==
    LET x == IF v.neg THEN QNeg(v.q) ELSE v.q
    IN IF ~v.frac /\ ~v.exp /\ x.n >= IntMin /\ x.n <= IntMax
       THEN Ok(Number_Int(x.n))
       ELSE Ok(FFin(x, v.neg))

\* not_nan: recognize_float takes a sign, digits, a fraction part and an
\* exponent part, and no word; Decimal::from_str takes no exponent part and
\* no value beyond Decimal::MAX
not_nan(i) ==
    LET x == IF i.neg THEN QNeg(i.q) ELSE i.q
    IN IF i.form # "digits" THEN Err("Error")
       ELSE CASE i.suffix = "" ->
                     IF try_from_str(i).tag = "Ok" THEN try_from_str(i)
                     ELSE Err("Failure")
              [] i.suffix = "f" -> Ok(FFin(x, i.neg))
              [] i.suffix = "dec" ->
                     IF i.exp \/ QGtInt(i.q, DecMax) THEN Err("Failure")
                     ELSE Ok(Number_Decimal(x))

\* number: alt((value(Number::NAN, tag("NaN")), not_nan))
number(i) ==
    IF i.form = "NaN" /\ ~i.neg THEN Ok(FNaN(FALSE)) ELSE not_nan(i)

\* One application of an operation of Number to the operands a and b
Applied(op, owned, a, b, r) ==
    /\ num = NumIdle
    /\ num' = [op |-> op, a |-> a, res |-> r, b |-> b, owned |-> owned]
    /\ UNCHANGED <<opt, src, last, steps, cs, geo>>

Call_number ==
    \E i \in Lexemes : Applied("number", FALSE, i, Unit, number(i))

\* the impls of Add, Sub, Mul and Div, for Number and for &Number
Call_arith ==
    \E op \in {"+", "-", "*", "/"}, owned \in BOOLEAN, a \in Numbers, b \in Numbers :
        \E r \in arith(op, owned, a, b) : Applied(op, owned, a, b, r)

\* Ord::cmp and PartialEq::eq
Call_cmp ==
    \E a \in Numbers, b \in Numbers :
        \/ Applied("cmp", FALSE, a, b, cmp(a, b))
        \/ Applied("eq", FALSE, a, b, eq(a, b))

Call_pow ==
    \E a \in Numbers, p \in Numbers : \E r \in pow(a, p) : Applied("pow", TRUE, a, p, r)

\* as_usize, as_int, as_float, as_decimal: each returns a value
Call_as ==
    \E a \in Numbers :
        \/ Applied("as_usize", TRUE, a, Unit, Ok(as_usize(a)))
        \/ Applied("as_int", TRUE, a, Unit, Ok(as_int(a)))
        \/ Applied("as_float", TRUE, a, Unit, Ok(as_float(a)))
        \/ Applied("as_decimal", TRUE, a, Unit, Ok(as_decimal(a)))
        \* to_int, to_float, to_decimal: each returns a value
        \/ Applied("to_int", FALSE, a, Unit, Ok(to_int(a)))
        \/ Applied("to_float", FALSE, a, Unit, Ok(to_float(a)))
        \/ Applied("to_decimal", FALSE, a, Unit, Ok(to_decimal(a)))

\* i8, i16, u8 and u16 are the same code as i32 and u32 on narrower ranges
Call_try_from ==
    \E a \in Numbers, ty \in {"i32", "i64", "i128", "u32", "u64", "u128"} :
        Applied("try_from", TRUE, a, ty, try_into_prim(a, ty))

NextNumber ==
    \/ Call_cmp \/ Call_pow \/ Call_try_from \/ Call_as
    \/ Call_number
    \/ Call_arith

SpecNumber == Init /\ [][NextNumber]_vars

(***************************************************************************)
(* sql::Geometry (lib/src/sql/geometry.rs)                                 *)
(***************************************************************************)
\* A coordinate is a pair of f64; a LineString is a sequence of coordinates;
\* a Polygon has an exterior ring and a sequence of interior rings
Geometry(kind, value) == [kind |-> kind, value |-> value]
Polygon(exterior, interiors) == [exterior |-> exterior, interiors |-> interiors]

\* The geometries the operations are applied to: zeros of both signs and a
\* NaN among the coordinates, empty sequences, values with the same
\* coordinates between different boundaries, and collections of them
Geometries ==
    LET zp == FFin(Q0, FALSE)
        zn == FFin(Q0, TRUE)
        one == FFin(Q(1, 1), FALSE)
        p00 == <<zp, zp>>
        pn0 == <<zn, zp>>
        p10 == <<one, zp>>
        p11 == <<one, one>>
        pnan == <<FNaN(FALSE), zp>>
        r1 == <<p00, p10, p11, p00>>
        ra == <<p00, p10, p00>>
        rb == <<p00, p11, p00>>
        simple ==
            { Geometry("Point", p00), Geometry("Point", pn0),
              Geometry("Point", p10), Geometry("Point", pnan),
              Geometry("Line", <<>>), Geometry("Line", <<p00, p10>>),
              Geometry("Line", <<pn0, p10>>),
              Geometry("Polygon", Polygon(r1, <<>>)),
              Geometry("Polygon", Polygon(r1, <<ra, rb>>)),
              Geometry("Polygon", Polygon(r1, <<ra \o rb>>)),
              Geometry("Polygon", Polygon(rb \o r1, <<>>)),
              Geometry("Polygon", Polygon(r1, <<rb>>)),
              Geometry("MultiPoint", <<>>), Geometry("MultiPoint", <<p00, p10>>),
              Geometry("MultiLine", <<>>),
              Geometry("MultiLine", <<<<p00, p10>>, <<p11>>>>),
              Geometry("MultiLine", <<<<p00>>, <<p10, p11>>>>),
              Geometry("MultiPolygon", <<Polygon(r1, <<>>)>>),
              Geometry("MultiPolygon", <<Polygon(r1, <<rb>>)>>),
              Geometry("MultiPolygon", <<Polygon(rb, <<>>), Polygon(r1, <<>>)>>) }
    IN simple
        \cup { Geometry("Collection", <<>>),
               Geometry("Collection", <<Geometry("Collection", <<>>)>>),
               Geometry("Collection", <<Geometry("Point", p00), Geometry("Line", <<p00, p10>>)>>) }
        \cup { Geometry("Collection", <<g>>) :
                  g \in { Geometry("Point", p00), Geometry("Point", pn0),
                          Geometry("Point", pnan),
                          Geometry("MultiLine", <<<<p00, p10>>, <<p11>>>>),
                          Geometry("MultiLine", <<<<p00>>, <<p10, p11>>>>) } }

\* f64::partial_cmp: None with a NaN, the zeros equal
f64_partial_cmp(x, y) ==
    IF x.c = "nan" \/ y.c = "nan" THEN "None" ELSE total_cmp_f64(x, y)

\* Iterator::partial_cmp and the partial_cmp of slices: r[i] is the
\* comparison of the elements at i; the first that is not Equal decides,
\* and then the lengths
iter_partial_cmp(r, n, m) ==
    LET len == IF n < m THEN n ELSE m
        diff == {i \in 1..len : r[i] # "Equal"}
    IN IF diff # {} THEN r[CHOOSE i \in diff : \A j \in diff : i <= j]
       ELSE IF n < m THEN "Less" ELSE IF n > m THEN "Greater" ELSE "Equal"

\* Iterator::flat_map over a sequence of sequences
RECURSIVE flat_map(_)
flat_map(ss) == IF ss = <<>> THEN <<>> ELSE Head(ss) \o flat_map(Tail(ss))

\* the rows of the match with the row (Polygon, MultiPoint) read as Greater
VariantLess_gap ==
    { <<"Point", "Line">>, <<"Point", "Polygon">>, <<"Point", "MultiPoint">>,
      <<"Point", "MultiLine">>, <<"Point", "MultiPolygon">>, <<"Point", "Collection">>,
      <<"Line", "Polygon">>, <<"Line", "MultiPoint">>, <<"Line", "MultiLine">>,
      <<"Line", "MultiPolygon">>, <<"Line", "Collection">>,
      <<"Polygon", "MultiLine">>,
      <<"Polygon", "MultiPolygon">>, <<"Polygon", "Collection">>,
      <<"MultiPoint", "MultiLine">>, <<"MultiPoint", "MultiPolygon">>,
      <<"MultiPoint", "Collection">>,
      <<"MultiLine", "MultiPolygon">>, <<"MultiLine", "Collection">>,
      <<"MultiPolygon", "Collection">> }

\* the rows of the match for two different variants: Some(Less)
VariantLess ==
    { <<"Point", "Line">>, <<"Point", "Polygon">>, <<"Point", "MultiPoint">>,
      <<"Point", "MultiLine">>, <<"Point", "MultiPolygon">>, <<"Point", "Collection">>,
      <<"Line", "Polygon">>, <<"Line", "MultiPoint">>, <<"Line", "MultiLine">>,
      <<"Line", "MultiPolygon">>, <<"Line", "Collection">>,
      <<"Polygon", "MultiPoint">>, <<"Polygon", "MultiLine">>,
      <<"Polygon", "MultiPolygon">>, <<"Polygon", "Collection">>,
      <<"MultiPoint", "MultiLine">>, <<"MultiPoint", "MultiPolygon">>,
      <<"MultiPoint", "Collection">>,
      <<"MultiLine", "MultiPolygon">>, <<"MultiLine", "Collection">>,
      <<"MultiPolygon", "Collection">> }

\* impl PartialOrd for Geometry: the coordinates of both values as flat
\* sequences (for a Polygon the interior rings, then the exterior ring),
\* compared as pairs of f64
RECURSIVE Geometry_partial_cmp(_, _)
Geometry_partial_cmp(a, b) ==
    LET coord(p, q) ==
            IF f64_partial_cmp(p[1], q[1]) # "Equal"
            THEN f64_partial_cmp(p[1], q[1])
            ELSE f64_partial_cmp(p[2], q[2])
        coords(s, t) ==
            iter_partial_cmp([i \in 1..Len(s) \cap 1..Len(t) |-> coord(s[i], t[i])],
                             Len(s), Len(t))
        polygon(v) == flat_map(v.interiors \o <<v.exterior>>)
        multipolygon(v) == flat_map([i \in 1..Len(v) |-> polygon(v[i])])
    IN IF a.kind # b.kind
       THEN (IF <<a.kind, b.kind>> \in VariantLess THEN "Less" ELSE "Greater")
       ELSE CASE a.kind = "Point" -> coord(a.value, b.value)
              [] a.kind = "Line" -> coords(a.value, b.value)
              [] a.kind = "Polygon" -> coords(polygon(a.value), polygon(b.value))
              [] a.kind = "MultiPoint" -> coords(a.value, b.value)
              [] a.kind = "MultiLine" -> coords(flat_map(a.value), flat_map(b.value))
              [] a.kind = "MultiPolygon" -> coords(multipolygon(a.value), multipolygon(b.value))
              [] a.kind = "Collection" ->
                    iter_partial_cmp(
                        [i \in 1..Len(a.value) \cap 1..Len(b.value) |->
                            Geometry_partial_cmp(a.value[i], b.value[i])],
                        Len(a.value), Len(b.value))

\* #[derive(PartialEq)] for Geometry: the same variant, and the same
\* structure with coordinates that are == as f64
RECURSIVE Geometry_eq(_, _)
Geometry_eq(a, b) ==
    LET coord(p, q) ==
            /\ f64_partial_cmp(p[1], q[1]) = "Equal"
            /\ f64_partial_cmp(p[2], q[2]) = "Equal"
        line(s, t) ==
            Len(s) = Len(t) /\ \A i \in 1..Len(s) : coord(s[i], t[i])
        lines(s, t) ==
            Len(s) = Len(t) /\ \A i \in 1..Len(s) : line(s[i], t[i])
        polygon(v, w) ==
            line(v.exterior, w.exterior) /\ lines(v.interiors, w.interiors)
    IN /\ a.kind = b.kind
       /\ CASE a.kind = "Point" -> coord(a.value, b.value)
            [] a.kind = "Line" -> line(a.value, b.value)
            [] a.kind = "Polygon" -> polygon(a.value, b.value)
            [] a.kind = "MultiPoint" -> line(a.value, b.value)
            [] a.kind = "MultiLine" -> lines(a.value, b.value)
            [] a.kind = "MultiPolygon" ->
                  Len(a.value) = Len(b.value) /\ \A i \in 1..Len(a.value) : polygon(a.value[i], b.value[i])
            [] a.kind = "Collection" ->
                  Len(a.value) = Len(b.value)
                      /\ \A i \in 1..Len(a.value) : Geometry_eq(a.value[i], b.value[i])

\* impl hash::Hash for Geometry: the writes made to the Hasher, in order
\* (for a Polygon the exterior ring, then the interior rings)
RECURSIVE Geometry_hash(_)
Geometry_hash(g) ==
    LET \* one write to the Hasher: a str, or the bits of an f64
        Hashed(str, bits) == [str |-> str, bits |-> bits]
        points(s) ==
            flat_map([i \in 1..Len(s) |->
                         <<Hashed("", s[i][1]), Hashed("", s[i][2])>>])
        polygon(v) == points(v.exterior) \o points(flat_map(v.interiors))
        tag(str) == <<Hashed(str, FFin(Q0, FALSE))>>
    IN CASE g.kind = "Point" -> tag("Point") \o points(<<g.value>>)
         [] g.kind = "Line" -> tag("Line") \o points(g.value)
         [] g.kind = "Polygon" -> tag("Polygon") \o polygon(g.value)
         [] g.kind = "MultiPoint" -> tag("MultiPoint") \o points(g.value)
         [] g.kind = "MultiLine" -> tag("MultiLine") \o points(flat_map(g.value))
         [] g.kind = "MultiPolygon" ->
               tag("MultiPolygon") \o flat_map([i \in 1..Len(g.value) |-> polygon(g.value[i])])
         [] g.kind = "Collection" ->
               tag("GeometryCollection")
                   \o flat_map([i \in 1..Len(g.value) |-> Geometry_hash(g.value[i])])

\* impl Display for Geometry.  A text is kept as what was written: a
\* Point as the pair in parentheses, the others as an object with its type
\* and its coordinates as nested brackets; an f64 prints its shortest
\* decimal form.  A Polygon prints its exterior ring and then, if it has
\* interior rings, one more bracket that holds them all.
RECURSIVE Geometry_fmt(_)
Geometry_fmt(g) ==
    LET f64(x) == IF x.c = "fin" THEN Literal(x.neg, QAbs(x.q), x.q.d # 1, FALSE, "")
                  ELSE IF x.c = "nan" THEN Word(FALSE, "NaN")
                  ELSE Word(x.neg, "inf")
        list(s) == [node |-> "list", items |-> s]
        coord(c) == [node |-> "coordinate", items |-> <<f64(c[1]), f64(c[2])>>]
        line(s) == list([i \in 1..Len(s) |-> coord(s[i])])
        polygon(v) ==
            list(<<line(v.exterior)>>
                 \o (IF Len(v.interiors) = 0 THEN <<>>
                     ELSE <<list([i \in 1..Len(v.interiors) |-> line(v.interiors[i])])>>))
        object(type, body) == [type |-> type, body |-> body, syntax |-> "normal"]
    IN CASE g.kind = "Point" ->
                [type |-> "", body |-> coord(g.value), syntax |-> "simple"]
         [] g.kind = "Line" -> object("LineString", line(g.value))
         [] g.kind = "Polygon" -> object("Polygon", polygon(g.value))
         [] g.kind = "MultiPoint" -> object("MultiPoint", line(g.value))
         [] g.kind = "MultiLine" ->
                object("MultiLineString", list([i \in 1..Len(g.value) |-> line(g.value[i])]))
         [] g.kind = "MultiPolygon" ->
                object("MultiPolygon", list([i \in 1..Len(g.value) |-> polygon(g.value[i])]))
         [] g.kind = "Collection" ->
                object("GeometryCollection",
                       [i \in 1..Len(g.value) |-> Geometry_fmt(g.value[i])])

\* nom's double: digits give the nearest f64; the words nan and inf are
\* taken without a sign
double(t) ==
    IF t.form = "digits" THEN Ok(FFin(IF t.neg THEN QNeg(t.q) ELSE t.q, t.neg))
    ELSE IF t.neg THEN Err("Error")
    ELSE IF t.form = "NaN" THEN Ok(FNaN(FALSE))
    ELSE Ok(FInf(FALSE))

\* alt((simple, normal)) on a text that is no GeometryCollection: the
\* parser of the values is the one of the type, each a delimited list of
\* the parser one level below; Polygon::new closes every ring
simple_or_normal(i) ==
    LET coordinate(c) ==
            IF c.node = "coordinate" /\ double(c.items[1]).tag = "Ok"
                                     /\ double(c.items[2]).tag = "Ok"
            THEN Ok(<<double(c.items[1]).val, double(c.items[2]).val>>)
            ELSE Err("Error")
        list0(item(_), n) ==
            IF n.node = "list" /\ \A k \in 1..Len(n.items) : item(n.items[k]).tag = "Ok"
            THEN Ok([k \in 1..Len(n.items) |-> item(n.items[k]).val])
            ELSE Err("Error")
        line_vals(n) == list0(coordinate, n)
        close(s) ==
            IF Len(s) > 0 /\ ( f64_partial_cmp(s[1][1], s[Len(s)][1]) # "Equal"
                               \/ f64_partial_cmp(s[1][2], s[Len(s)][2]) # "Equal" )
            THEN Append(s, s[1]) ELSE s
        polygon_vals(n) ==
            LET e == list0(line_vals, n)
            IN IF e.tag = "Ok" /\ Len(e.val) >= 1
               THEN Ok(Polygon(close(e.val[1]),
                               [k \in 1..(Len(e.val) - 1) |-> close(e.val[k + 1])]))
               ELSE Err("Error")
        as(kind, r) == IF r.tag = "Ok" THEN Ok(Geometry(kind, r.val)) ELSE r
    IN IF i.syntax = "simple" THEN as("Point", coordinate(i.body))
       ELSE CASE i.type = "Point" -> as("Point", coordinate(i.body))
              [] i.type = "LineString" -> as("Line", line_vals(i.body))
              [] i.type = "Polygon" -> as("Polygon", polygon_vals(i.body))
              [] i.type = "MultiPoint" -> as("MultiPoint", list0(coordinate, i.body))
              [] i.type = "MultiLineString" -> as("MultiLine", list0(line_vals, i.body))
              [] i.type = "MultiPolygon" -> as("MultiPolygon", list0(polygon_vals, i.body))
              [] OTHER -> Err("Error")

\* The parser's limit of nested entries
MaxParseDepth == 3

\* parser::depth::dive: the counter of nested entries goes up by one, and
\* beyond the limit the entry is refused and the counter stays
depth_dive(d) ==
    IF d + 1 <= MaxParseDepth THEN Ok(d + 1) ELSE Err("Failure")

\* The texts given to the parser: every printed geometry, a Polygon whose
\* rings are all in one bracket, a Point written as an object, a
\* collection with an element that does not parse between two that do,
\* and collections nested up to one level beyond the limit
Texts ==
    LET one == FFin(Q(1, 1), FALSE)
        zero == FFin(Q0, FALSE)
        r1 == <<<<zero, zero>>, <<one, zero>>, <<one, one>>, <<zero, zero>>>>
        rb == <<<<zero, zero>>, <<one, one>>, <<zero, zero>>>>
        p == Geometry("Point", <<one, zero>>)
        open == Geometry("Polygon", Polygon(<<<<zero, zero>>, <<one, zero>>>>, <<>>))
        nest[n \in 0..(MaxParseDepth + 1)] ==
            IF n = 0 THEN p ELSE Geometry("Collection", <<p, nest[n - 1]>>)
        rings == [Geometry_fmt(Geometry("MultiLine", <<r1, rb>>)) EXCEPT !.type = "Polygon"]
    IN {Geometry_fmt(g) : g \in Geometries}
         \cup {Geometry_fmt(nest[n]) : n \in 0..(MaxParseDepth + 1)}
         \cup { rings,
                Geometry_fmt(open),
                [Geometry_fmt(p) EXCEPT !.syntax = "normal", !.type = "Point"],
                Geometry_fmt(Geometry("Collection",
                    <<p, Geometry("Polygon", Polygon(r1, <<rb>>)),
                      Geometry("Collection", <<p>>)>>)) }

\* geometry(i) with the guard of dive bound to _ : it is dropped at once
geometry_unbound(g, i) ==
    LET d == depth_dive(g.depth)
        n == Len(g.stack)
    IN IF d.tag = "Ok"
       THEN [g EXCEPT !.stack = Append(@, [text |-> i, acc |-> <<>>, err |-> Ok(Unit),
                                           guard |-> FALSE])]
       ELSE IF n = 0 THEN [g EXCEPT !.res = d]
       ELSE [g EXCEPT !.stack[n].err = d]

\* geometry(i) is entered while the parser is in the state g: the guard of
\* dive is held in _diving until the entry returns, and a refused dive is
\* returned to the caller at once
geometry(g, i) ==
    LET d == depth_dive(g.depth)
        n == Len(g.stack)
    IN IF d.tag = "Ok"
       THEN [g EXCEPT !.depth = d.val,
                      !.stack = Append(@, [text |-> i, acc |-> <<>>, err |-> Ok(Unit),
                                           guard |-> TRUE])]
       ELSE IF n = 0 THEN [g EXCEPT !.res = d]
       ELSE [g EXCEPT !.stack[n].err = d]

\* the parser is called on a text, for the first time or after an earlier
\* call has returned; the counter of the thread is the one the earlier
\* call has left
Call_parse ==
    /\ geo = GeoIdle \/ (geo.op = "geometry" /\ geo.res.tag # "Pending")
    /\ \E i \in Texts :
          geo' = geometry([op |-> "geometry", a |-> i,
                           res |-> [tag |-> "Pending", val |-> Unit], b |-> Unit,
                           depth |-> IF geo = GeoIdle THEN 0 ELSE geo.depth,
                           stack |-> <<>>], i)
    /\ UNCHANGED <<opt, src, last, steps, cs, num>>

\* collection_vals: geometry is entered for the next element of the
\* collection that is being parsed
Geometry_descend ==
    /\ geo.op = "geometry" /\ geo.res.tag = "Pending"
    /\ Len(geo.stack) > 0
    /\ LET top == geo.stack[Len(geo.stack)]
       IN /\ top.text.type = "GeometryCollection"
          /\ top.err.tag = "Ok"
          /\ Len(top.acc) < Len(top.text.body)
          /\ geo' = geometry(geo, top.text.body[Len(top.acc) + 1])
    /\ UNCHANGED <<opt, src, last, steps, cs, num>>

\* geometry returns: a collection after its last element or at the first
\* element that failed, any other text with what alt((simple, normal))
\* gives; _diving is dropped, and the caller takes the result
Geometry_return ==
    /\ geo.op = "geometry" /\ geo.res.tag = "Pending"
    /\ Len(geo.stack) > 0
    /\ LET n == Len(geo.stack)
           top == geo.stack[n]
           r == IF top.err.tag # "Ok" THEN top.err
                ELSE IF top.text.type = "GeometryCollection"
                THEN Ok(Geometry("Collection", top.acc))
                ELSE simple_or_normal(top.text)
           d == IF top.guard THEN geo.depth - 1 ELSE geo.depth
           rest == SubSeq(geo.stack, 1, n - 1)
       IN /\ top.text.type = "GeometryCollection" /\ top.err.tag = "Ok"
                => Len(top.acc) = Len(top.text.body)
          /\ geo' = IF n = 1 THEN [geo EXCEPT !.res = r, !.depth = d, !.stack = rest]
                    ELSE IF r.tag = "Ok"
                    THEN [geo EXCEPT !.depth = d,
                                     !.stack = [rest EXCEPT ![n - 1].acc = Append(@, r.val)]]
                    ELSE [geo EXCEPT !.depth = d,
                                     !.stack = [rest EXCEPT ![n - 1].err = r]]
    /\ UNCHANGED <<opt, src, last, steps, cs, num>>

\* The geometries given to contains and intersects, none of them empty
\* but the empty Collection
Shapes ==
    LET zero == FFin(Q0, FALSE)
        one == FFin(Q(1, 1), FALSE)
        l1 == <<<<zero, zero>>, <<one, zero>>>>
        l2 == <<<<zero, zero>>, <<one, one>>>>
        g1 == Polygon(<<<<zero, zero>>, <<one, zero>>, <<one, one>>, <<zero, zero>>>>, <<>>)
    IN { Geometry("Point", <<zero, zero>>), Geometry("Point", <<one, one>>),
         Geometry("Line", l1), Geometry("Line", l2),
         Geometry("Polygon", g1),
         Geometry("MultiPoint", <<<<zero, zero>>>>),
         Geometry("MultiPoint", <<<<zero, zero>>, <<one, one>>>>),
         Geometry("MultiLine", <<l2>>), Geometry("MultiLine", <<l1, l2>>),
         Geometry("MultiPolygon", <<g1>>),
         Geometry("Collection", <<>>),
         Geometry("Collection", <<Geometry("Point", <<zero, zero>>)>>),
         Geometry("Collection", <<Geometry("Point", <<one, one>>), Geometry("Line", l1)>>),
         Geometry("Collection", <<Geometry("Collection", <<Geometry("Line", l2)>>)>>) }

\* Geometry::contains with a Collection that contains what one of its
\* elements contains
RECURSIVE Geometry_contains_any(_, _, _)
Geometry_contains_any(lib, a, b) ==
    LET each(w) ==
            CASE w.kind = "MultiPoint" -> [k \in 1..Len(w.value) |-> Geometry("Point", w.value[k])]
              [] w.kind = "MultiLine" -> [k \in 1..Len(w.value) |-> Geometry("Line", w.value[k])]
              [] w.kind = "MultiPolygon" ->
                    [k \in 1..Len(w.value) |-> Geometry("Polygon", w.value[k])]
              [] OTHER -> <<>>
        contains(v, w) ==
            (\E k \in 1..Len(each(v)) : each(v)[k] = w) \/ <<v, w>> \in lib
        all(w, v) == \A k \in 1..Len(each(w)) : contains(v, each(w)[k])
    IN CASE a.kind = "Collection" ->
                \E k \in 1..Len(a.value) : Geometry_contains_any(lib, a.value[k], b)
         [] a.kind # "Collection" /\ b.kind = "Collection" ->
                \A k \in 1..Len(b.value) : Geometry_contains_any(lib, a, b.value[k])
         [] a.kind = "Point" /\ b.kind = "Point" -> contains(a, b)
         [] a.kind = "Point" /\ b.kind = "MultiPoint" -> all(b, a)
         [] a.kind = "Line" /\ b.kind \in {"Point", "Line"} -> contains(a, b)
         [] a.kind = "Line" /\ b.kind = "MultiLine" -> all(b, b)
         [] a.kind = "Polygon" /\ b.kind \in {"Point", "Line", "Polygon"} -> contains(a, b)
         [] a.kind = "Polygon" /\ b.kind = "MultiPolygon" -> all(b, b)
         [] a.kind = "MultiPoint" /\ b.kind = "Point" -> contains(a, b)
         [] a.kind = "MultiPoint" /\ b.kind = "MultiPoint" -> all(b, b)
         [] a.kind = "MultiLine" /\ b.kind \in {"Point", "Line"} -> contains(a, b)
         [] a.kind = "MultiLine" /\ b.kind = "MultiLine" -> all(b, b)
         [] a.kind = "MultiPolygon" /\ b.kind # "Collection" -> contains(a, b)
         [] OTHER -> FALSE

\* Geometry::contains.  The answers of the geometric library are given by
\* lib, the pairs (v, w) for which v.contains(w) holds; the library finds
\* every element of a MultiPoint, MultiLineString or MultiPolygon in it.
RECURSIVE Geometry_contains(_, _, _)
Geometry_contains(lib, a, b) ==
    LET each(w) ==
            CASE w.kind = "MultiPoint" -> [k \in 1..Len(w.value) |-> Geometry("Point", w.value[k])]
              [] w.kind = "MultiLine" -> [k \in 1..Len(w.value) |-> Geometry("Line", w.value[k])]
              [] w.kind = "MultiPolygon" ->
                    [k \in 1..Len(w.value) |-> Geometry("Polygon", w.value[k])]
              [] OTHER -> <<>>
        contains(v, w) ==
            (\E k \in 1..Len(each(v)) : each(v)[k] = w) \/ <<v, w>> \in lib
        all(w, v) == \A k \in 1..Len(each(w)) : contains(v, each(w)[k])
    IN CASE a.kind = "Collection" ->
                \A k \in 1..Len(a.value) : Geometry_contains(lib, a.value[k], b)
         [] a.kind # "Collection" /\ b.kind = "Collection" ->
                \A k \in 1..Len(b.value) : Geometry_contains(lib, a, b.value[k])
         [] a.kind = "Point" /\ b.kind = "Point" -> contains(a, b)
         [] a.kind = "Point" /\ b.kind = "MultiPoint" -> all(b, a)
         [] a.kind = "Line" /\ b.kind \in {"Point", "Line"} -> contains(a, b)
         [] a.kind = "Line" /\ b.kind = "MultiLine" -> all(b, b)
         [] a.kind = "Polygon" /\ b.kind \in {"Point", "Line", "Polygon"} -> contains(a, b)
         [] a.kind = "Polygon" /\ b.kind = "MultiPolygon" -> all(b, b)
         [] a.kind = "MultiPoint" /\ b.kind = "Point" -> contains(a, b)
         [] a.kind = "MultiPoint" /\ b.kind = "MultiPoint" -> all(b, b)
         [] a.kind = "MultiLine" /\ b.kind \in {"Point", "Line"} -> contains(a, b)
         [] a.kind = "MultiLine" /\ b.kind = "MultiLine" -> all(b, b)
         [] a.kind = "MultiPolygon" /\ b.kind # "Collection" -> contains(a, b)
         [] OTHER -> FALSE

\* Geometry::intersects with another side that is a Collection taken as
\* intersected when one of its elements is
RECURSIVE Geometry_intersects_any(_, _, _)
Geometry_intersects_any(lib, a, b) ==
    LET each(w) ==
            CASE w.kind = "MultiPoint" -> {Geometry("Point", w.value[k]) : k \in 1..Len(w.value)}
              [] w.kind = "MultiLine" -> {Geometry("Line", w.value[k]) : k \in 1..Len(w.value)}
              [] w.kind = "MultiPolygon" ->
                    {Geometry("Polygon", w.value[k]) : k \in 1..Len(w.value)}
              [] OTHER -> {w}
        intersects(v, w) == \E x \in each(v), y \in each(w) : {x, y} \in lib
    IN CASE a.kind = "Collection" ->
                \A k \in 1..Len(a.value) : Geometry_intersects_any(lib, a.value[k], b)
         [] a.kind # "Collection" /\ b.kind = "Collection" ->
                \E k \in 1..Len(b.value) : Geometry_intersects_any(lib, a, b.value[k])
         [] a.kind \in {"Point", "Line", "MultiPoint", "MultiLine"} /\ b.kind = "MultiLine" ->
                \E k \in 1..Len(b.value) : intersects(a, Geometry("Line", b.value[k]))
         [] OTHER -> intersects(a, b)

\* Geometry::intersects.  The answers of the geometric library are given
\* by lib, the pairs {x, y} of a Point, LineString or Polygon each that
\* intersect; for the library a MultiPoint, MultiLineString or MultiPolygon
\* intersects what one of its elements intersects.
RECURSIVE Geometry_intersects(_, _, _)
Geometry_intersects(lib, a, b) ==
    LET each(w) ==
            CASE w.kind = "MultiPoint" -> {Geometry("Point", w.value[k]) : k \in 1..Len(w.value)}
              [] w.kind = "MultiLine" -> {Geometry("Line", w.value[k]) : k \in 1..Len(w.value)}
              [] w.kind = "MultiPolygon" ->
                    {Geometry("Polygon", w.value[k]) : k \in 1..Len(w.value)}
              [] OTHER -> {w}
        intersects(v, w) == \E x \in each(v), y \in each(w) : {x, y} \in lib
    IN CASE a.kind = "Collection" ->
                \A k \in 1..Len(a.value) : Geometry_intersects(lib, a.value[k], b)
         [] a.kind # "Collection" /\ b.kind = "Collection" ->
                \A k \in 1..Len(b.value) : Geometry_intersects(lib, a, b.value[k])
         [] a.kind \in {"Point", "Line", "MultiPoint", "MultiLine"} /\ b.kind = "MultiLine" ->
                \E k \in 1..Len(b.value) : intersects(a, Geometry("Line", b.value[k]))
         [] OTHER -> intersects(a, b)

\* One application of an operation of Geometry to the operands a and b
Call_geometry ==
    /\ geo = GeoIdle
    /\ \E a \in Geometries, b \in Geometries :
          \/ geo' = [op |-> "partial_cmp", a |-> a, res |-> Geometry_partial_cmp(a, b), b |-> b]
          \/ geo' = [op |-> "eq", a |-> a, res |-> Geometry_eq(a, b), b |-> b]
          \/ geo' = [op |-> "hash", a |-> a, res |-> Geometry_hash(a), b |-> Unit]
    /\ UNCHANGED <<opt, src, last, steps, cs, num>>

\* contains and intersects, with the answers of the geometric library to
\* what the operands and their parts may be asked
Call_contains ==
    /\ geo = GeoIdle
    /\ \E a \in Shapes, b \in Shapes :
          LET RECURSIVE parts(_)
              parts(g) ==
                  CASE g.kind = "Collection" ->
                          UNION {parts(g.value[k]) : k \in 1..Len(g.value)}
                    [] g.kind = "MultiPoint" ->
                          {g} \cup {Geometry("Point", g.value[k]) : k \in 1..Len(g.value)}
                    [] g.kind = "MultiLine" ->
                          {g} \cup {Geometry("Line", g.value[k]) : k \in 1..Len(g.value)}
                    [] g.kind = "MultiPolygon" ->
                          {g} \cup {Geometry("Polygon", g.value[k]) : k \in 1..Len(g.value)}
                    [] OTHER -> {g}
              RECURSIVE whole(_)
              whole(g) ==
                  IF g.kind = "Collection"
                  THEN UNION {whole(g.value[k]) : k \in 1..Len(g.value)}
                  ELSE {g}
              atoms(g) == {x \in parts(g) : x.kind \in {"Point", "Line", "Polygon"}}
          IN \/ \E lib \in SUBSET (whole(a) \X parts(b)) :
                   geo' = [op |-> "contains", a |-> a, res |-> Geometry_contains(lib, a, b),
                           b |-> b, lib |-> lib]
             \/ \E lib \in SUBSET {{x, y} : x \in atoms(a), y \in atoms(b)} :
                   geo' = [op |-> "intersects", a |-> a,
                           res |-> Geometry_intersects(lib, a, b), b |-> b, lib |-> lib]
    /\ UNCHANGED <<opt, src, last, steps, cs, num>>

NextGeometry ==
    \/ Call_geometry \/ Call_contains
    \/ Call_parse \/ Geometry_descend \/ Geometry_return

SpecGeometry == Init /\ [][NextGeometry]_vars

(***************************************************************************)
(* Properties of Options                                                   *)
(***************************************************************************)
\* f is the same in both values for every field outside of `changed`
SameExcept(o1, o2, changed) == \A f \in Fields \ changed : o1[f] = o2[f]

\* C1: dive(cost) on depth d computes n = min(255, d + cost); when
\* n <= MAX_COMPUTATION_DEPTH it returns Ok of a value with depth n and every
\* other field as in the source, otherwise Err(ComputationDepthExceeded)
\* and the value in hand is still the source; dive(0) returns the source.
C1_DiveContract ==
    last.op = "dive" =>
        LET cost == last.arg[1]
            n == IF src.dive + cost < U8_MAX THEN src.dive + cost ELSE U8_MAX
        IN /\ n <= MAX_COMPUTATION_DEPTH =>
                /\ last.res.tag = "Ok"
                /\ last.res.val.dive = n
                /\ SameExcept(last.res.val, src, {"dive"})
                /\ opt = last.res.val
           /\ n > MAX_COMPUTATION_DEPTH =>
                /\ last.res.tag = "Err"
                /\ last.res.val = "ComputationDepthExceeded"
                /\ opt = src
           /\ cost = 0 => last.res.tag = "Ok" /\ last.res.val = src

\* a dive from a positive depth whose sum passes 255 and is refused
C1_Witness ==
    /\ last.op = "dive"
    /\ src.dive > 0
    /\ src.dive + last.arg[1] > U8_MAX
    /\ last.res.tag = "Err"

\* C2: along any chain of derivations from Options::new() the depth never
\* decreases, only dive changes it, and it never exceeds
\* MAX_COMPUTATION_DEPTH.
C2_DepthMonotone ==
    [][ /\ opt'.dive >= opt.dive
        /\ opt'.dive <= MAX_COMPUTATION_DEPTH
        /\ (last'.op # "dive" => opt'.dive = opt.dive) ]_vars

\* a value at a positive depth derived by something else than dive
C2_Witness ==
    /\ opt.dive > 0
    /\ src.dive = opt.dive
    /\ last.op \in {"new_with_perms", "with_ns", "set_db", "new_with_sender"}

\* what the documentation of check_perms gives as the fast path
SufficientRole(a, action) ==
    IF action = "View" THEN a.roles \cap {"Viewer", "Editor", "Owner"} # {}
    ELSE a.roles \cap {"Editor", "Owner"} # {}
InPrincipalLevel(o) ==
    \/ o.auth.level.kind = "Root"
    \/ o.auth.level.kind = "Ns" /\ o.auth.level.ns = o.ns
    \/ o.auth.level.kind = "Db" /\ o.auth.level.ns = o.ns /\ o.auth.level.db = o.db
NoCheckNeeded(o, action) ==
    \/ ~o.perms
    \/ ~o.auth_enabled /\ o.auth.level.kind = "No"
    \/ SufficientRole(o.auth, action) /\ InPrincipalLevel(o)

\* C3: check_perms(action) returns false exactly when perms is false, or auth
\* is disabled and the principal is anonymous, or the principal has a
\* sufficient role and the selected database lies in its level; in every
\* other case it returns true.
C3_CheckPermsTable ==
    last.op = "check_perms" =>
        /\ last.res.tag = "Ok"
        /\ last.res.val = ~NoCheckNeeded(src, last.arg[1])

\* C4: is_allowed returns Ok without looking at the selection when auth is
\* disabled and the principal is anonymous; otherwise base Ns needs a
\* namespace (NsEmpty), base Db and Sc need a namespace (NsEmpty) and a
\* database (DbEmpty), and in the remaining cases the result is that of
\* Auth::is_allowed on the resolved resource, its error wrapped as IamError.
C4_IsAllowed ==
    last.op = "is_allowed" =>
        LET res == last.arg[2]
            base == last.arg[3]
            iam == last.arg[4]
            wrapped == IF iam.tag = "Ok" THEN iam ELSE Err(<<"IamError", iam.val>>)
        IN IF ~src.auth_enabled /\ src.auth.level.kind = "No"
           THEN last.res = Ok(Unit) /\ last.asked = None
           ELSE IF base[1] = "Root"
           THEN last.res = wrapped /\ last.asked.level = <<"Root">> /\ last.asked.kind = res
           ELSE IF src.ns = None
           THEN last.res = Err("NsEmpty") /\ last.asked = None
           ELSE IF base[1] \in {"Db", "Sc"} /\ src.db = None
           THEN last.res = Err("DbEmpty") /\ last.asked = None
           ELSE /\ last.res = wrapped
                /\ last.asked.kind = res
                /\ last.asked.level =
                     IF base[1] = "Ns" THEN <<"Ns", src.ns>>
                     ELSE IF base[1] = "Db" THEN <<"Db", src.ns, src.db>>
                     ELSE <<"Sc", src.ns, src.db, base[2]>>

\* a database-level check by a known principal with no selection at all
C4_Witness ==
    /\ last.op = "is_allowed"
    /\ last.arg[3][1] = "Db"
    /\ src.ns = None /\ src.db = None
    /\ src.auth.level.kind # "No"
    /\ last.res.tag = "Err"

\* C5: selected_base() is Root for (None, None), Ns for (Some, None), Db for
\* (Some, Some) and Err(NsEmpty) for (None, Some), after any sequence of
\* selections, and it leaves the options value as it was.
C5_SelectedBase ==
    last.op = "selected_base" =>
        /\ opt = src
        /\ (src.ns = None /\ src.db = None => last.res = Ok("Root"))
        /\ (src.ns # None /\ src.db = None => last.res = Ok("Ns"))
        /\ (src.ns # None /\ src.db # None => last.res = Ok("Db"))
        /\ (src.ns = None /\ src.db # None => last.res = Err("NsEmpty"))

\* selected_base on a database selected without a namespace
C5_Witness ==
    /\ last.op = "selected_base"
    /\ src.ns = None /\ src.db # None
    /\ last.res.tag = "Err"

\* C6: ns() and db() on an unset selection yield the Unreachable error kind,
\* and no Options operation aborts the process.
C6_NoPanic ==
    /\ ~last.panicked
    /\ (last.op = "ns" /\ src.ns = None => last.res = Err("Unreachable"))
    /\ (last.op = "db" /\ src.db = None => last.res = Err("Unreachable"))

\* C7: after with_import(b) and in the value of new_with_import(b), fields,
\* events and tables are all ~b, and every other field is as before.
C7_Import ==
    last.op \in {"with_import", "new_with_import"} =>
        /\ opt.fields = ~last.arg[1]
        /\ opt.events = ~last.arg[1]
        /\ opt.tables = ~last.arg[1]
        /\ SameExcept(opt, src, {"fields", "events", "tables"})

\* an import derivation that turns off field queries that were on, from a
\* source whose index queries had been turned off before
C7_Witness ==
    /\ last.op = "with_import"
    /\ last.arg[1]
    /\ src.fields /\ ~opt.fields
    /\ ~src.indexes

(***************************************************************************)
(* Properties of CreateStatement::compute                                  *)
(***************************************************************************)
\* C8: compute fails fast on an invalid selection: Err(NsEmpty) with no
\* namespace (also when a database is selected), Err(DbEmpty) with a
\* namespace and no database; no target is evaluated, prepare and output
\* are never called.
C8_FailFast ==
    cs.pc = "done" =>
        /\ cs.opt.ns = None =>
              cs.origin = "valid_for_db" /\ cs.result = Err("NsEmpty") /\ cs.calls = <<>>
        /\ cs.opt.ns # None /\ cs.opt.db = None =>
              cs.origin = "valid_for_db" /\ cs.result = Err("DbEmpty") /\ cs.calls = <<>>

\* a statement with targets refused for a database without a namespace
C8_Witness ==
    /\ cs.pc = "done"
    /\ cs.opt.ns = None /\ cs.opt.db # None
    /\ Len(cs.what) > 0
    /\ cs.result.tag = "Err"

\* C9: an InvalidStatementTarget{value} from prepare is returned as
\* CreateStatement{value} with the same value, any other error from prepare
\* is returned unchanged, and no InvalidStatementTarget from prepare is
\* returned.
C9_PrepareError ==
    cs.pc = "done" /\ cs.origin = "i.prepare" =>
        /\ cs.result.tag = "Err"
        /\ cs.raised.kind = "InvalidStatementTarget" =>
              cs.result.val = [kind |-> "CreateStatement", value |-> cs.raised.value]
        /\ cs.raised.kind # "InvalidStatementTarget" => cs.result.val = cs.raised
        /\ cs.result.val.kind # "InvalidStatementTarget"

\* prepare refuses the second target as an invalid statement target
C9_Witness ==
    /\ cs.pc = "done"
    /\ cs.origin = "i.prepare"
    /\ cs.k = 2
    /\ cs.raised.kind = "InvalidStatementTarget"
    /\ cs.result.val.kind = "CreateStatement"

(***************************************************************************)
(* Properties of Number                                                    *)
(***************************************************************************)
ArithOps == {"+", "-", "*", "/"}

\* the table of result kinds
ResultKind(ka, kb) ==
    IF ka = "Decimal" \/ kb = "Decimal" THEN "Decimal"
    ELSE IF ka = "Float" \/ kb = "Float" THEN "Float"
    ELSE "Int"

\* the Decimal an operand stands for next to a Decimal operand: a Float that
\* has no Decimal (NaN, infinite, out of range) counts as zero
AsDecimalOperand(x) ==
    IF x.kind = "Decimal" THEN x.q
    ELSE IF x.kind = "Int" THEN [n |-> x.v, d |-> 1]
    ELSE IF x.c = "fin" /\ Abs(x.q.n) <= DecMax * x.q.d THEN x.q
    ELSE [n |-> 0, d |-> 1]

\* C10: + - * / (owned and by reference) give a result whose kind depends
\* on the operand kinds only: Int op Int is Int; Int/Float pairings and
\* Float op Float are Float; every pairing with a Decimal operand is computed
\* on Decimals, a Float operand being converted to Decimal and replaced by
\* Decimal zero when that conversion fails.
C10_ArithKinds ==
    num.op \in ArithOps =>
        /\ num.res.tag = "Ok" =>
              num.res.val.kind = ResultKind(num.a.kind, num.b.kind)
        /\ "Decimal" \in {num.a.kind, num.b.kind} =>
              num.res \in DecOp(num.op, AsDecimalOperand(num.a), AsDecimalOperand(num.b))

\* a NaN added by reference to a Decimal counts as zero
C10_Witness ==
    /\ num.op = "+"
    /\ ~num.owned
    /\ num.a.kind = "Float" /\ num.a.c = "nan"
    /\ num.b = Number_Decimal(Q(5, 2))
    /\ num.res = Ok(Number_Decimal(Q(5, 2)))
Reverse(ord) ==
    CASE ord = "Less" -> "Greater" [] ord = "Greater" -> "Less" [] ord = "Equal" -> "Equal"

\* the ascending vector of the order test, each place with every
\* representation of its value among the operands
OrdVector ==
    << {FNaN(TRUE)}, {FInf(TRUE)}, {Number_Int(-3)},
       {Number_Int(-1), FFin(Q(-1, 1), FALSE), Number_Decimal(Q(-1, 1))},
       {FFin(Q(-1, 8), FALSE)},
       {Number_Int(0), FFin(Q0, FALSE), FFin(Q0, TRUE), Number_Decimal(Q0)},
       {FFin(Q(1, 8), FALSE), Number_Decimal(Q(1, 8))},
       {Number_Int(1), FFin(Q(1, 1), FALSE), Number_Decimal(Q(1, 1))},
       {Number_Int(3)}, {FInf(FALSE)}, {FNaN(FALSE)} >>
OrdPos(x) == CHOOSE i \in DOMAIN OrdVector : x \in OrdVector[i]

\* C11: cmp(a, a) is Equal, cmp(a, b) is the reverse of cmp(b, a), and
\* a == b holds exactly when cmp(a, b) is Equal, for all kinds; the zeros of
\* every kind are pairwise equal and the vector of the order test is strictly
\* ascending, every representation of a value comparing equal.
C11_OrderEq ==
    /\ num.op = "cmp" =>
          /\ (num.a = num.b => num.res = "Equal")
          /\ num.res = Reverse(cmp(num.b, num.a))
          /\ (num.res = "Equal") <=> eq(num.a, num.b)
          /\ (\A x \in {num.a, num.b} : \E i \in DOMAIN OrdVector : x \in OrdVector[i]) =>
                num.res = (IF OrdPos(num.a) < OrdPos(num.b) THEN "Less"
                           ELSE IF OrdPos(num.a) > OrdPos(num.b) THEN "Greater"
                           ELSE "Equal")
    /\ num.op = "eq" => (num.res <=> cmp(num.a, num.b) = "Equal")

\* the float -0.0 compared with the Decimal zero
C11_Witness ==
    /\ num.op = "cmp"
    /\ num.a = FFin(Q0, TRUE)
    /\ num.b = Number_Decimal(Q0)
    /\ num.res = "Equal"

\* C12: Int^Int is an Int, except that a negative Int exponent gives a
\* Float; Decimal^Int is a Decimal; every other pairing gives a Float.
C12_PowKinds ==
    num.op = "pow" /\ num.res.tag = "Ok" =>
        num.res.val.kind =
            (IF num.a.kind = "Int" /\ num.b.kind = "Int"
             THEN (IF num.b.v < 0 THEN "Float" ELSE "Int")
             ELSE IF num.a.kind = "Decimal" /\ num.b.kind = "Int" THEN "Decimal"
             ELSE "Float")

\* C14: TryFrom<Number> for a primitive integer type gives Ok(v) with the
\* same value when an Int lies in the range of the type, and
\* Err(TryFrom(printed form, type name)) when it lies outside; never a
\* wrapped or truncated value.
C14_TryIntoPrim ==
    num.op = "try_from" /\ num.a.kind = "Int" =>
        IF num.a.v >= PrimRange(num.b)[1] /\ num.a.v <= PrimRange(num.b)[2]
        THEN num.res = Ok(num.a.v)
        ELSE num.res = Err(<<"TryFrom",
                             Literal(num.a.v < 0, Q(Abs(num.a.v), 1), FALSE, FALSE, ""),
                             num.b>>)

\* the largest Int does not fit a u32, a negative Int does not fit a u64
C14_Witness ==
    /\ num.op = "try_from"
    /\ \/ num.a = Number_Int(IntMax) /\ num.b = "u32"
       \/ num.a = Number_Int(-1) /\ num.b = "u64"
    /\ num.res.tag = "Err"

\* the integer part of a finite Number
IntegerPart(x) == IF x.kind = "Int" THEN x.v ELSE TruncDiv(x.q.n, x.q.d)
IsFinite(x) == x.kind # "Float" \/ x.c = "fin"
Clamp(v, lo, hi) == IF v < lo THEN lo ELSE IF v > hi THEN hi ELSE v

\* C13: to_int, to_float and to_decimal are lossless: when the Number cannot
\* be represented in the target type they fail with the error
\* TryFrom(value text, target type) instead of returning a value.
C13_Lossless ==
    /\ num.op = "to_int" =>
          IF IsFinite(num.a) /\ (num.a.kind = "Int" \/ num.a.q.d = 1)
             /\ IntegerPart(num.a) >= IntMin /\ IntegerPart(num.a) <= IntMax
          THEN num.res = Ok(IntegerPart(num.a))
          ELSE num.res.tag = "Err"
    /\ num.op = "to_float" =>
          IF num.a.kind = "Float" THEN num.res = Ok(num.a)
          ELSE IF num.a.kind = "Int"
          THEN (IF f64_round(Q(num.a.v, 1)) = Q(num.a.v, 1)
                THEN num.res = Ok(FFin(Q(num.a.v, 1), FALSE)) ELSE num.res.tag = "Err")
          ELSE (IF f64_round(num.a.q) = num.a.q
                THEN num.res = Ok(FFin(num.a.q, FALSE)) ELSE num.res.tag = "Err")
    /\ num.op = "to_decimal" =>
          IF num.a.kind = "Int" THEN num.res = Ok(Q(num.a.v, 1))
          ELSE IF IsFinite(num.a) /\ ~QGtInt(QAbs(num.a.q), DecMax)
          THEN num.res = Ok(num.a.q)
          ELSE num.res.tag = "Err"

\* C15: as_int, as_usize, as_float and as_decimal never fail, and a value
\* outside of the range of the target type gives the nearest bound of the
\* type.
C15_Saturating ==
    /\ num.op \in {"as_int", "as_usize", "as_float", "as_decimal"} => num.res.tag = "Ok"
    /\ num.op = "as_int" /\ num.a.kind = "Float" /\ num.a.c = "inf" =>
          num.res.val = (IF num.a.neg THEN IntMin ELSE IntMax)
    /\ num.op = "as_int" /\ IsFinite(num.a) =>
          num.res.val = Clamp(IntegerPart(num.a), IntMin, IntMax)
    /\ num.op = "as_usize" /\ num.a.kind = "Float" /\ num.a.c = "inf" =>
          num.res.val = (IF num.a.neg THEN 0 ELSE 2 * IntMax + 1)
    /\ num.op = "as_usize" /\ IsFinite(num.a) =>
          num.res.val = Clamp(IntegerPart(num.a), 0, 2 * IntMax + 1)
    /\ num.op = "as_decimal" /\ num.a.kind = "Float" /\ num.a.c # "nan" =>
          num.res.val =
              (IF num.a.c = "inf" \/ QGtInt(QAbs(num.a.q), DecMax)
               THEN Q(IF num.a.neg THEN -DecMax ELSE DecMax, 1)
               ELSE num.a.q)

\* C16: the parser chooses the kind from the lexical form alone: without
\* suffix, digits of a value in the i64 range give the Int and digits with a
\* fraction part, an exponent part or a value outside of the i64 range give
\* a Float; the suffix f gives a Float and the suffix dec gives a Decimal
\* whatever the body looks like (its value lying in the range of Decimal);
\* the token NaN gives Float(NaN).
C16_LexicalKind ==
    num.op = "number" =>
        LET i == num.a
            x == IF i.neg THEN -i.q.n ELSE i.q.n
            InInt == ~i.frac /\ ~i.exp /\ x >= IntMin /\ x <= IntMax
        IN /\ i.form = "digits" /\ i.suffix = "" /\ InInt =>
                  num.res.tag = "Ok" /\ num.res.val = Number_Int(x)
           /\ i.form = "digits" /\ i.suffix = "" /\ ~InInt =>
                  num.res.tag = "Ok" /\ num.res.val.kind = "Float"
           /\ i.form = "digits" /\ i.suffix = "f" =>
                  num.res.tag = "Ok" /\ num.res.val.kind = "Float"
           /\ i.form = "digits" /\ i.suffix = "dec" /\ ~QGtInt(i.q, DecMax) =>
                  num.res.tag = "Ok" /\ num.res.val.kind = "Decimal"
           /\ i.form = "NaN" /\ ~i.neg =>
                  num.res.tag = "Ok" /\ num.res.val.kind = "Float"
                      /\ num.res.val.c = "nan"

\* C17: parsing the printed text of a Number gives the value back: the same
\* Int, the same Decimal, and for a Float (finite, infinite or NaN of either
\* sign) a Float with the same bits or another zero.
C17_RoundTrip ==
    \A x \in Numbers :
        num.op = "number" /\ num.a = to_string(x) =>
            /\ num.res.tag = "Ok"
            /\ num.res.val.kind = x.kind
            /\ IF x.kind = "Float" THEN eq(num.res.val, x) ELSE num.res.val = x

\* C18: Int / Int yields the Int that is the quotient truncated toward zero;
\* a division by zero panics when it is made on i64 (Int / Int) or on
\* Decimal (an operand is a Decimal), and returns an infinity or NaN when
\* it is made on f64 (the other pairs).
C18_Division ==
    num.op = "/" =>
        LET a == num.a
            b == num.b
            IsZero(x) == IF x.kind = "Int" THEN x.v = 0
                         ELSE IsFinite(x) /\ x.q.n = 0
        IN IF a.kind = "Int" /\ b.kind = "Int"
           THEN (IF b.v = 0 THEN num.res.tag = "Panic"
                 ELSE num.res.tag = "Ok"
                      /\ num.res.val = Number_Int(TruncDiv(a.v, b.v)))
           ELSE IsZero(b) =>
                    IF a.kind = "Decimal" \/ b.kind = "Decimal"
                    THEN num.res.tag = "Panic"
                    ELSE num.res.tag = "Ok" /\ num.res.val.kind = "Float"
                         /\ num.res.val.c \in {"inf", "nan"}

\* C19: geometries that are equal have the same hash, the hash being made
\* of the tag of the variant and of the bits of every coordinate; points
\* with the coordinates +0.0 and -0.0 included.
C19_EqHash ==
    geo.op = "eq" /\ geo.res => Geometry_hash(geo.a) = Geometry_hash(geo.b)

\* C20: two geometries are equal exactly when partial_cmp gives Some(Equal)
\* for them, whatever their variants; values of MultiLine, Polygon and
\* MultiPolygon with the same coordinates between different boundaries
\* included.
C20_EqIsEqual ==
    geo.op = "partial_cmp" =>
        ((geo.res = "Equal") <=> Geometry_eq(geo.a, geo.b))

\* the place of each variant in the order of the variants
VariantRank ==
    [k \in {"Point", "Line", "Polygon", "MultiPoint", "MultiLine", "MultiPolygon",
            "Collection"} |->
        CASE k = "Point" -> 1 [] k = "Line" -> 2 [] k = "Polygon" -> 3
          [] k = "MultiPoint" -> 4 [] k = "MultiLine" -> 5
          [] k = "MultiPolygon" -> 6 [] k = "Collection" -> 7]

\* C21: two geometries of different variants compare by their variants
\* alone, in the order Point < Line < Polygon < MultiPoint < MultiLine <
\* MultiPolygon < Collection, whatever their coordinates (empty sequences
\* and NaN included), and cmp(a, b) is the reverse of cmp(b, a).
C21_VariantOrder ==
    geo.op = "partial_cmp" /\ geo.a.kind # geo.b.kind =>
        /\ geo.res = (IF VariantRank[geo.a.kind] < VariantRank[geo.b.kind]
                      THEN "Less" ELSE "Greater")
        /\ Geometry_partial_cmp(geo.b, geo.a) = Reverse(geo.res)

\* a Point with a NaN coordinate against an empty Line, and a Collection
\* against a MultiPolygon
C21_Witness ==
    /\ geo.op = "partial_cmp"
    /\ \/ /\ geo.a.kind = "Point" /\ geo.a.value[1].c = "nan"
          /\ geo.b = Geometry("Line", <<>>)
          /\ geo.res = "Less"
       \/ /\ geo.a = Geometry("Collection", <<>>)
          /\ geo.b.kind = "MultiPolygon"
          /\ geo.res = "Greater"

\* C22: printing a geometry and parsing the text gives the geometry back,
\* for every variant: a Polygon with zero or more interior rings, nested
\* collections and empty sequences included.
C22_PrintParse ==
    \A g \in Geometries :
        /\ geo.op = "geometry" /\ geo.res.tag # "Pending"
        /\ geo.a = Geometry_fmt(g)
        /\ Geometry_eq(g, g)
        => geo.res.tag = "Ok" /\ Geometry_eq(geo.res.val, g)

\* how deep the collections of a text are nested, the text itself counted
RECURSIVE Nesting(_)
Nesting(i) ==
    IF i.type # "GeometryCollection" THEN 1
    ELSE LET m == {Nesting(i.body[k]) : k \in 1..Len(i.body)}
         IN 1 + (IF m = {} THEN 0 ELSE CHOOSE x \in m : \A y \in m : y <= x)

\* C28: every entry into the geometry parser raises the depth counter by
\* one and the counter is back at its value when the entry returns, on
\* success and on every failure, inside nested collections too; an entry
\* beyond the limit is a parse failure; after any sequence of parses the
\* counter has its initial value.
C28_DepthGuard ==
    geo.op = "geometry" =>
        /\ geo.depth = Len(geo.stack)
        /\ geo.depth <= MaxParseDepth
        /\ geo.res.tag # "Pending" => geo.depth = 0
        /\ geo.res = Err("Failure") => Nesting(geo.a) > MaxParseDepth
        /\ geo.res.tag = "Ok" => Nesting(geo.a) <= MaxParseDepth

\* a parse that has entered the limit of nested collections and was
\* refused one level deeper has returned, after an earlier parse
C28_Witness ==
    /\ geo.op = "geometry"
    /\ geo.res = Err("Failure")
    /\ Nesting(geo.a) = MaxParseDepth + 1
    /\ geo.depth = 0

\* the pairings of variants that contains does not support
Unsupported ==
    ({"Point"} \X {"Line", "Polygon", "MultiLine", "MultiPolygon"})
        \cup ({"Line"} \X {"Polygon", "MultiPoint", "MultiPolygon"})
        \cup ({"Polygon"} \X {"MultiPoint", "MultiLine"})
        \cup ({"MultiPoint"} \X {"Line", "Polygon", "MultiLine", "MultiPolygon"})
        \cup ({"MultiLine"} \X {"Polygon", "MultiPoint", "MultiPolygon"})

\* C23: a Collection contains b exactly when every one of its elements
\* contains b (so an empty Collection contains everything), and contains
\* gives a boolean for every pairing of variants, false for the pairings
\* it does not support (Point contains Line, Line contains Polygon).
C23_CollectionContains ==
    geo.op = "contains" =>
        /\ geo.res \in BOOLEAN
        /\ geo.a.kind = "Collection" =>
              (geo.res <=> \A k \in 1..Len(geo.a.value) :
                              Geometry_contains(geo.lib, geo.a.value[k], geo.b))
        /\ <<geo.a.kind, geo.b.kind>> \in Unsupported => ~geo.res

\* a Collection of a Point and a Line of which only the Line contains b
C23_Witness ==
    /\ geo.op = "contains"
    /\ geo.a.kind = "Collection" /\ Len(geo.a.value) = 2
    /\ geo.b.kind = "Point"
    /\ <<geo.a.value[2], geo.b>> \in geo.lib
    /\ <<geo.a.value[1], geo.b>> \notin geo.lib
    /\ ~geo.res

\* C24: intersects is symmetric, the library's answers being symmetric,
\* and when either side is a Collection the result is true exactly when
\* every element of that collection intersects the other side.
C24_Intersects ==
    geo.op = "intersects" =>
        /\ geo.res <=> Geometry_intersects(geo.lib, geo.b, geo.a)
        /\ geo.a.kind = "Collection" =>
              (geo.res <=> \A k \in 1..Len(geo.a.value) :
                              Geometry_intersects(geo.lib, geo.a.value[k], geo.b))
        /\ geo.b.kind = "Collection" =>
              (geo.res <=> \A k \in 1..Len(geo.b.value) :
                              Geometry_intersects(geo.lib, geo.b.value[k], geo.a))

\* a MultiLine against a Collection of a Point and a Line, of which the
\* Line intersects it and the Point does not
C24_Witness ==
    /\ geo.op = "intersects"
    /\ geo.a.kind = "MultiLine" /\ Len(geo.a.value) = 2
    /\ geo.b.kind = "Collection" /\ Len(geo.b.value) = 2
    /\ Geometry_intersects(geo.lib, geo.a, geo.b.value[2])
    /\ ~Geometry_intersects(geo.lib, geo.b.value[1], geo.a)
    /\ ~geo.res

\* C29: for b a MultiLine, MultiPolygon or MultiPoint and a of a variant
\* that supports it (Line or MultiLine with a MultiLine, Polygon with a
\* MultiPolygon, MultiPoint with a MultiPoint), a.contains(b) is true
\* exactly when a contains every element of b: it depends on a, and is
\* false when an element of b lies outside a.
C29_MultiContains ==
    /\ geo.op = "contains"
    /\ <<geo.a.kind, geo.b.kind>> \in
          { <<"Line", "MultiLine">>, <<"MultiLine", "MultiLine">>,
            <<"Polygon", "MultiPolygon">>, <<"MultiPoint", "MultiPoint">> }
    => (geo.res <=>
          \A k \in 1..Len(geo.b.value) :
             Geometry_contains(geo.lib, geo.a,
                Geometry(CASE geo.b.kind = "MultiLine" -> "Line"
                           [] geo.b.kind = "MultiPolygon" -> "Polygon"
                           [] geo.b.kind = "MultiPoint" -> "Point",
                         geo.b.value[k])))

\* C30: the order of Numbers is transitive across the kinds: if cmp(a, b)
\* and cmp(b, c) are not Greater then cmp(a, c) is not Greater, and if
\* a == b and b == c then a == c; an Int beyond the precision of a Float
\* against a Float of the same value, and a Decimal against a Float,
\* included.
C30_Transitive ==
    num.op = "cmp" =>
        \A c \in Numbers :
            /\ num.res # "Greater" /\ cmp(num.b, c) # "Greater"
                  => cmp(num.a, c) # "Greater"
            /\ eq(num.a, num.b) /\ eq(num.b, c) => eq(num.a, c)

\* the place of a clause in the canonical text
ClauseRank(ph) ==
    CASE ph.class = "data" -> 1 [] ph.class = "output" -> 2
      [] ph.class = "timeout" -> 3 [] ph.class = "word" -> 4 [] OTHER -> 0

\* C25: parsing a CREATE statement and printing the result gives the
\* canonical text: CREATE and the targets, then the data clause, the
\* RETURN clause, the TIMEOUT clause and PARALLEL, each only when present
\* and always in that order; absent clauses parse to None and false;
\* `CREATE test` parses to one target and prints as `CREATE test`; the
\* keywords CREATE and PARALLEL are taken in any case.
C25_Canonical ==
    cs.pc = "parsed" =>
        LET i == cs.i
            stm == cs.res.val
            out == CreateStatement_fmt(stm)
            n == Len(i) - Len(stm.rest)
            has(class) == \E k \in 3..n : i[k].class = class
        IN /\ cs.res.tag = "Ok"
                <=> /\ Len(i) >= 2
                    /\ i[1].class = "word" /\ i[1].text[1] \in {"CREATE", "Create", "create"}
                    /\ i[2].class = "values"
           /\ cs.res.tag = "Ok" =>
                /\ Len(out) = n
                /\ out[1].text = <<"CREATE">> /\ out[2] = i[2]
                /\ \A k \in 3..n :
                      out[k] = IF i[k].class = "word"
                               THEN [i[k] EXCEPT !.text = <<"PARALLEL">>] ELSE i[k]
                /\ \A k \in 3..(n - 1) : ClauseRank(out[k]) < ClauseRank(out[k + 1])
                /\ n < Len(i) => ClauseRank(i[n + 1]) <= ClauseRank(i[n])
                /\ (stm.data = <<>>) <=> ~has("data")
                /\ (stm.output = <<>>) <=> ~has("output")
                /\ (stm.timeout = <<>>) <=> ~has("timeout")
                /\ stm.parallel <=> has("word")
                /\ create(out) = Ok([stm EXCEPT !.rest = <<>>])
                /\ Len(i) = 2 /\ i[1].text = <<"CREATE">> /\ i[2].text = <<"test">>
                      => Len(stm.what) = 1 /\ out = i

\* `create test SET a = 1 RETURN NONE TIMEOUT 1s parallel` has parsed, with
\* nothing left
C25_Witness ==
    /\ cs.pc = "parsed"
    /\ Len(cs.i) = 6
    /\ cs.i[1].text = <<"create">> /\ cs.i[6].text = <<"parallel">>
    /\ cs.res.tag = "Ok"
    /\ cs.res.val.parallel /\ Len(cs.res.val.rest) = 0
    /\ Len(cs.res.val.data) = 1 /\ Len(cs.res.val.output) = 1
    /\ Len(cs.res.val.timeout) = 1

C27_DerivedOptions ==
    /\ [](cs.pc \in {"eval", "prepare", "output", "done"} =>
             \A j \in 1..Len(cs.calls) :
                 /\ ~cs.calls[j].opt.futures
                 /\ SameExcept(cs.calls[j].opt, cs.opt, {"futures"})
                 /\ cs.calls[j].opt = cs.calls[1].opt)
    /\ [][cs.pc \in {"eval", "prepare", "output"} => cs'.opt = cs.opt /\ opt' = opt]_vars

\* a caller with futures = true whose statement was evaluated, prepared
\* and output
C27_Witness ==
    /\ cs.pc = "done"
    /\ cs.opt.futures
    /\ cs.origin = "i.output"
    /\ Len(cs.calls) >= 3

====
